---- MODULE Spec2Model ----
(***************************************************************************)
(* A model of the stock ledger and the order roll-ups of the ERP backend.  *)
(*                                                                         *)
(* Database rows are the state.  Every model method (save hook) and every  *)
(* view action is one atomic action unless a specification says otherwise  *)
(* (SpecRace splits update_stock into load / save / create).               *)
(*                                                                         *)
(* Numbers: FloatField and DecimalField values are modelled as integers;   *)
(* money is counted in hundredths, and the inputs are chosen so that the   *)
(* percentages of the code (discount, 18% tax) are exact.  The model says  *)
(* nothing about the rounding of the database columns nor about mixing     *)
(* Decimal and float operands.                                             *)
(***************************************************************************)
EXTENDS Integers, Sequences, FiniteSets, TLC

VARIABLES
    current_stock,    \* Material.current_stock, per material
    movements,        \* StockMovement rows written by Material.update_stock, in creation order
    po_lines,         \* PurchaseOrderLineItem rows
    purchase_orders,  \* PurchaseOrder rows
    work_order,       \* the WorkOrder row (produced_quantity, rejected_quantity)
    receipt_lines,    \* MaterialReceiptLineItem rows, per receipt, in creation order
    adjustment_lines, \* StockAdjustmentLineItem rows, in creation order
    receipt_status,   \* the status the receipt view names, per receipt (no field of the model)
    view_movements,   \* StockMovement rows written by the receipt view, in creation order
    so_lines,         \* SalesOrderLineItem rows
    sales_orders,     \* SalesOrder rows
    status_log,       \* per order, the statuses it has had, the first one first
    requests,         \* the requests in flight of SpecRace: position and in-memory material
    initial_stock,    \* Material.current_stock before the first operation
    steps,            \* number of operations run so far
    last,             \* the operation that ran last, with its arguments
    pre,              \* the rows as they were before the last operation
    invoices,         \* Invoice rows, in creation order
    sales_requests,   \* the create_invoice requests in flight: position, loaded order
    requests_started, \* number of requests started so far
    quotations,       \* Quotation rows
    quotation_orders, \* SalesOrder rows created from quotations, in creation order
    quotation_order_lines, \* SalesOrderLineItem rows created from quotations
    payments,         \* Payment rows
    asset,            \* the FixedAsset row
    depreciation_calls, \* the calls of calculate_depreciation: as_of_date and result
    payroll,          \* the Payroll row, with the current_salary of its employee
    accounts,         \* Account rows, with the category of their account type
    transactions,     \* Transaction rows
    journal_entries,  \* JournalEntry rows
    plans,            \* ProductionPlan rows
    energy_readings,  \* EnergyReading rows, by their timestamp
    import_cmd        \* the run of the import_energy_data command

vars == <<current_stock, movements, po_lines, purchase_orders, work_order,
          receipt_lines, adjustment_lines, receipt_status, view_movements,
          so_lines, sales_orders, status_log, requests, initial_stock, steps, last, pre,
          invoices, sales_requests, requests_started,
          quotations, quotation_orders, quotation_order_lines, payments,
          asset, depreciation_calls, payroll, accounts, transactions, journal_entries,
          plans, energy_readings, import_cmd>>

\* the readings of the energy dashboard and the command that imports them
energy_vars == <<energy_readings, import_cmd>>

\* the invoices of the sales app and the requests that create them
invoice_vars == <<invoices, sales_requests, requests_started, payments>>

\* the rows outside the ledger and the orders
\* the quotations of the sales app and what their conversion creates
quotation_vars == <<quotations, quotation_orders, quotation_order_lines>>

\* the fixed asset of the finance app
asset_vars == <<asset, depreciation_calls>>

\* the accounts of the finance app
account_vars == <<accounts, transactions, journal_entries>>

ext_vars_but_energy == <<invoice_vars, quotation_vars, asset_vars, payroll, account_vars,
                         plans>>

ext_vars == <<ext_vars_but_energy, energy_vars>>

\* the rows of the ledger and the orders, which the sales documents leave alone
base_vars == <<current_stock, movements, po_lines, purchase_orders, work_order,
               receipt_lines, adjustment_lines, receipt_status, view_movements,
               so_lines, sales_orders, status_log, requests, initial_stock, pre>>

\* what the operations on invoices and payments, on quotations and on the
\* fixed asset leave alone
not_invoice_vars == <<base_vars, quotation_vars, asset_vars, payroll, account_vars, plans, energy_vars>>

not_quotation_vars == <<base_vars, invoice_vars, asset_vars, payroll, account_vars, plans, energy_vars>>

not_asset_vars == <<base_vars, invoice_vars, quotation_vars, payroll, account_vars, plans, energy_vars>>

not_payroll_vars == <<base_vars, invoice_vars, quotation_vars, asset_vars, account_vars, plans, energy_vars>>

not_account_vars == <<base_vars, invoice_vars, quotation_vars, asset_vars, payroll, plans, energy_vars>>

not_plan_vars == <<base_vars, invoice_vars, quotation_vars, asset_vars, payroll,
                   account_vars, energy_vars>>

not_energy_vars == <<base_vars, ext_vars_but_energy, steps, last>>

\* the rows of the sales app
sales_vars == <<so_lines, sales_orders>>

\* the rows only the receipt view writes
receipt_view_vars == <<receipt_status, view_movements>>

----------------------------------------------------------------------------
\* Bounds of the model.

MaxSteps == 2
MaxQty == 2

Materials == {"M1", "M2"}
POLines == {"L1", "L2"}
PurchaseOrders == {"PO1", "PO2"}
Receipts == {"R1"}
SOLines == {"S1", "S2"}
SalesOrders == {"SO1", "SO2"}
Requests == {"A", "B"}
Quantities == 1 .. MaxQty
StockLevels == 0 .. MaxQty

----------------------------------------------------------------------------
\* inventory/models.py: Material.update_stock and StockMovement

TRANSACTION_TYPES ==
    {"receipt", "issue", "production_receipt", "production_issue",
     "adjustment_in", "adjustment_out", "transfer_in", "transfer_out",
     "sale", "return"}

\* a string that is no declared type
UnknownType == "unknown"

AddingTypes == {"receipt", "production_receipt", "adjustment_in"}

SubtractingTypes == {"issue", "production_issue", "adjustment_out", "sale"}

\* update_stock with 'sale' missing from the subtracting branch
NewStock_without_sale(old_stock, quantity, transaction_type) ==
    IF transaction_type \in {"receipt", "production_receipt", "adjustment_in"}
    THEN old_stock + quantity
    ELSE IF transaction_type \in {"issue", "production_issue", "adjustment_out"}
    THEN old_stock - quantity
    ELSE old_stock

\* the value of self.current_stock after the if / elif of update_stock
NewStock(old_stock, quantity, transaction_type) ==
    IF transaction_type \in AddingTypes THEN old_stock + quantity
    ELSE IF transaction_type \in SubtractingTypes THEN old_stock - quantity
    ELSE old_stock

\* self.save(): the whole row is written from the in-memory object
SavedStock(stock, material, new_stock) ==
    [stock EXCEPT ![material] = new_stock]

\* update_stock reading old_stock after the change instead of before it
NewMovement_old_stock_read_late(material, transaction_type, quantity, old_stock, new_stock, reference) ==
    [material |-> material, transaction_type |-> transaction_type,
     quantity |-> quantity, previous_stock |-> new_stock,
     current_stock |-> new_stock, reference |-> reference]

\* StockMovement.objects.create(...) at the end of update_stock
NewMovement(material, transaction_type, quantity, old_stock, new_stock, reference) ==
    [material |-> material, transaction_type |-> transaction_type,
     quantity |-> quantity, previous_stock |-> old_stock,
     current_stock |-> new_stock, reference |-> reference]

\* update_stock as an atomic increment of the stored column
update_stock_row_atomic(stock, material, old_stock, quantity, transaction_type) ==
    [stock EXCEPT ![material] = @ + NewStock(old_stock, quantity, transaction_type) - old_stock]

\* update_stock on an object whose in-memory current_stock is old_stock:
\* the stock column and the movement table afterwards
update_stock_row(stock, material, old_stock, quantity, transaction_type) ==
    SavedStock(stock, material, NewStock(old_stock, quantity, transaction_type))

update_stock_movements(moves, material, old_stock, quantity, transaction_type, reference) ==
    Append(moves, NewMovement(material, transaction_type, quantity, old_stock,
                              NewStock(old_stock, quantity, transaction_type), reference))

----------------------------------------------------------------------------
\* inventory/models.py: PurchaseOrder.calculate_totals, PurchaseOrderLineItem.save

RECURSIVE SumLineTotal(_, _)
SumLineTotal(lines, S) ==
    IF S = {} THEN 0
    ELSE LET l == CHOOSE x \in S : TRUE
         IN lines[l].line_total + SumLineTotal(lines, S \ {l})

\* unit_price * (1 - discount_percentage / 100) * quantity
LineTotal(unit_price, discount_percentage, quantity) ==
    (unit_price * (100 - discount_percentage) * quantity) \div 100

\* subtotal * Decimal('0.18')
TaxAmount(subtotal) == (subtotal * 18) \div 100

\* the line items of the order, inactive ones included
LinesOf_inactive_included(lines, order) ==
    {l \in DOMAIN lines : lines[l].order = order}

ActiveLinesOf(lines, order) ==
    {l \in DOMAIN lines : lines[l].order = order /\ lines[l].is_active}

calculate_totals(order_row, lines, order) ==
    LET subtotal == SumLineTotal(lines, ActiveLinesOf(lines, order))
    IN [order_row EXCEPT !.subtotal = subtotal,
                         !.tax_amount = TaxAmount(subtotal),
                         !.total_amount = subtotal + TaxAmount(subtotal)
                                          - order_row.discount_amount]

\* PurchaseOrderLineItem.save of a row: line_total is recomputed
PurchaseOrderLineItem_saved(row) ==
    [row EXCEPT !.line_total =
        LineTotal(row.unit_price, row.discount_percentage, row.quantity_ordered)]

\* sales/models.py: SalesOrder.calculate_totals, SalesOrderLineItem.save
SalesOrder_calculate_totals(order_row, lines, order) ==
    LET subtotal == SumLineTotal(lines, ActiveLinesOf(lines, order))
    IN [order_row EXCEPT !.subtotal = subtotal,
                         !.tax_amount = TaxAmount(subtotal),
                         !.total_amount = subtotal + TaxAmount(subtotal)
                                          - order_row.discount_amount]

SalesOrderLineItem_saved(row) ==
    [row EXCEPT !.line_total =
        LineTotal(row.unit_price, row.discount_percentage, row.quantity)]

----------------------------------------------------------------------------
\* The rows the runs start from: two materials in stock, one draft purchase
\* order whose two lines were saved through PurchaseOrderLineItem.save, one
\* work order, one material receipt without lines.

InitPOLine(material) ==
    [order |-> "PO1", material |-> material, quantity_ordered |-> 2,
     quantity_received |-> 0, unit_price |-> 100, discount_percentage |-> 0,
     line_total |-> LineTotal(100, 0, 2), is_active |-> TRUE]

InitPOLines == [l \in POLines |-> InitPOLine(IF l = "L1" THEN "M1" ELSE "M2")]

InitPurchaseOrder(order, status, discount_amount) ==
    calculate_totals([status |-> status, subtotal |-> 0, tax_amount |-> 0,
                      discount_amount |-> discount_amount, total_amount |-> 0],
                     InitPOLines, order)

InitSOLine ==
    [order |-> "SO1", quantity |-> 2, unit_price |-> 100, discount_percentage |-> 0,
     line_total |-> LineTotal(100, 0, 2), is_active |-> TRUE]

InitSOLines == [l \in SOLines |-> InitSOLine]

InitSalesOrder(order, status, discount_amount) ==
    SalesOrder_calculate_totals([status |-> status, subtotal |-> 0, tax_amount |-> 0,
                                 discount_amount |-> discount_amount, total_amount |-> 0],
                                InitSOLines, order)

IdleRequest ==
    [pc |-> "idle", material |-> "", current_stock |-> 0, loaded_stock |-> 0,
     loaded_at |-> 0, old_stock |-> 0, quantity |-> 0, transaction_type |-> "",
     saved_at |-> 0]

NoOp == [op |-> "none"]

\* sales/models.py: Quotation with its QuotationLineItem rows; the first
\* quotation has an active and an inactive line, the second one active line
Quotations == {"Q1", "Q2"}

QuotationLineItems ==
    [q \in Quotations |->
        IF q = "Q1"
        THEN <<[quantity |-> 2, unit_price |-> 100, discount_percentage |-> 0,
                line_total |-> LineTotal(100, 0, 2), is_active |-> TRUE],
               [quantity |-> 1, unit_price |-> 100, discount_percentage |-> 0,
                line_total |-> LineTotal(100, 0, 1), is_active |-> FALSE]>>
        ELSE <<[quantity |-> 1, unit_price |-> 100, discount_percentage |-> 0,
                line_total |-> LineTotal(100, 0, 1), is_active |-> TRUE]>>]

InitQuotation(q, status) ==
    LET subtotal == IF q = "Q1" THEN LineTotal(100, 0, 2) ELSE LineTotal(100, 0, 1)
    IN [status |-> status, subtotal |-> subtotal, tax_amount |-> TaxAmount(subtotal),
        discount_amount |-> 0, total_amount |-> subtotal + TaxAmount(subtotal)]

\* sales/models.py: Payment
Payments == {"P1", "P2"}

\* a create_invoice request that has not started
IdleSalesRequest == [pc |-> "idle", order |-> "", row |-> NoOp, response |-> 0]

Snapshot ==
    [current_stock |-> current_stock, movements |-> movements,
     po_lines |-> po_lines, purchase_orders |-> purchase_orders,
     work_order |-> work_order, receipt_lines |-> receipt_lines,
     adjustment_lines |-> adjustment_lines, receipt_status |-> receipt_status,
     view_movements |-> view_movements, so_lines |-> so_lines,
     sales_orders |-> sales_orders]

\* every order starts as a draft (the default of the status fields)
Drafts == [o \in PurchaseOrders \cup SalesOrders |-> "draft"]

\* the initial rows, given the stock of material M1, the discount of the orders
\* and the status of each order
BaseRows(stock, discount_amount, status) ==
    /\ current_stock = [m \in Materials |-> IF m = "M1" THEN stock ELSE MaxQty - stock]
    /\ initial_stock = current_stock
    /\ movements = <<>>
    /\ po_lines = InitPOLines
    /\ purchase_orders = [o \in PurchaseOrders |-> InitPurchaseOrder(o, status[o], discount_amount)]
    /\ work_order = [wo_number |-> "WO1", produced_quantity |-> 0, rejected_quantity |-> 0]
    /\ receipt_lines = [r \in Receipts |-> <<>>]
    /\ adjustment_lines = <<>>
    /\ receipt_status = [r \in Receipts |-> "pending"]
    /\ view_movements = <<>>
    /\ so_lines = InitSOLines
    /\ sales_orders = [o \in SalesOrders |-> InitSalesOrder(o, status[o], discount_amount)]
    /\ status_log = [o \in PurchaseOrders \cup SalesOrders |-> <<status[o]>>]
    /\ requests = [r \in Requests |-> IdleRequest]
    /\ steps = 0
    /\ last = NoOp
    /\ pre = Snapshot

\* no invoice yet, no request in flight
IdleInvoices ==
    /\ invoices = <<>>
    /\ sales_requests = [r \in Requests |-> IdleSalesRequest]
    /\ requests_started = 0
    /\ payments = [p \in Payments |-> [invoice |-> 0, amount |-> 1]]

\* draft quotations, none converted
IdleQuotations ==
    /\ quotations = [q \in Quotations |-> InitQuotation(q, "draft")]
    /\ quotation_orders = <<>>
    /\ quotation_order_lines = <<>>

\* an asset nobody has asked about
IdleAsset ==
    /\ asset = [purchase_date |-> [month |-> 0, day |-> 1], purchase_cost |-> 0,
                salvage_value |-> 0, useful_life_years |-> 1,
                depreciation_method |-> "STRAIGHT_LINE"]
    /\ depreciation_calls = <<>>

\* hr/models.py: the fields of Payroll that hold amounts
PayrollEarnings ==
    {"basic_salary", "hra", "transport_allowance", "medical_allowance",
     "special_allowance", "overtime_amount", "bonus", "incentive"}

PayrollDeductions ==
    {"pf_employee", "pf_employer", "esi_employee", "esi_employer",
     "professional_tax", "income_tax", "loan_deduction", "other_deductions"}

PayrollTotals == {"gross_salary", "total_deductions", "net_salary"}

\* a Payroll row with the defaults of its fields
DefaultPayroll ==
    [f \in PayrollEarnings \cup PayrollDeductions \cup PayrollTotals |-> 0]
    @@ [working_days |-> 0, present_days |-> 0, employee |-> [current_salary |-> 0]]

IdlePayroll == payroll = DefaultPayroll

\* the sales documents, the asset and the payroll untouched
IdleSales == IdleInvoices /\ IdleQuotations

\* finance/models.py: Account, Transaction
Accounts == {"A1", "A2"}

Transactions == {"T1", "T2"}

\* accounts without entries
IdleAccounts ==
    /\ accounts = [a \in Accounts |->
                      [category |-> "ASSET", opening_balance |-> 0, current_balance |-> 0]]
    /\ transactions = [t \in Transactions |-> [is_posted |-> FALSE]]
    /\ journal_entries = <<>>

IdleBooks == IdlePayroll /\ IdleAccounts

IdleFinance == IdleAsset /\ IdleBooks

\* production/models.py: ProductionPlan
Plans == {"PP1"}

IdlePlans == plans = [pl \in Plans |-> [status |-> "draft"]]

\* no import has been started
IdleImport ==
    [file |-> <<>>, batch_size |-> 1000, clear |-> FALSE, state |-> "idle", row |-> 1,
     readings_to_create |-> <<>>, total_processed |-> 0, total_created |-> 0,
     total_skipped |-> 0, before |-> <<>>]

IdleEnergy == energy_readings = <<>> /\ import_cmd = IdleImport

IdleExt == IdleSales /\ IdleFinance /\ IdlePlans /\ IdleEnergy

InitRows(stock, discount_amount, status) ==
    BaseRows(stock, discount_amount, status) /\ IdleExt

Init == \E s \in StockLevels : InitRows(s, 0, Drafts)

\* every operation counts one step and remembers the rows it found
Step ==
    /\ steps < MaxSteps
    /\ steps' = steps + 1
    /\ pre' = Snapshot
    /\ UNCHANGED <<initial_stock, requests, status_log, ext_vars>>

----------------------------------------------------------------------------
\* Material.update_stock called on a freshly loaded material

UpdateStock(material, quantity, transaction_type, reference) ==
    /\ Step
    /\ current_stock' = update_stock_row(current_stock, material,
                            current_stock[material], quantity, transaction_type)
    /\ movements' = update_stock_movements(movements, material,
                            current_stock[material], quantity, transaction_type, reference)
    /\ last' = [op |-> "update_stock", material |-> material, quantity |-> quantity,
                transaction_type |-> transaction_type, reference |-> reference]
    /\ UNCHANGED <<po_lines, purchase_orders, work_order, receipt_lines, adjustment_lines>>
    /\ UNCHANGED <<receipt_view_vars, sales_vars>>

\* MaterialReceiptLineItem.save of a new line of a receipt
QUALITY_STATUSES == {"accepted", "rejected", "pending_inspection"}

MaterialReceiptLineItem_po_lines(lines, po_line, quantity_received) ==
    [lines EXCEPT ![po_line] = PurchaseOrderLineItem_saved(
        [lines[po_line] EXCEPT !.quantity_received = @ + quantity_received])]

\* the stock updated for every line that was not rejected
MaterialReceiptLineItem_updates_unless_rejected(quality_status) ==
    quality_status # "rejected"

MaterialReceiptLineItem_updates_stock(quality_status) == quality_status = "accepted"

MaterialReceiptLineItem_save(receipt, po_line, material, quantity_received, quality_status) ==
    LET lines == MaterialReceiptLineItem_po_lines(po_lines, po_line, quantity_received)
        order == po_lines[po_line].order
    IN
    /\ Step
    /\ receipt_lines' = [receipt_lines EXCEPT ![receipt] = Append(@,
            [po_line_item |-> po_line, material |-> material,
             quantity_received |-> quantity_received, quality_status |-> quality_status])]
    /\ po_lines' = lines
    /\ purchase_orders' = [purchase_orders EXCEPT ![order] = calculate_totals(@, lines, order)]
    /\ IF MaterialReceiptLineItem_updates_stock(quality_status)
       THEN /\ current_stock' = update_stock_row(current_stock, material,
                    current_stock[material], quantity_received, "receipt")
            /\ movements' = update_stock_movements(movements, material,
                    current_stock[material], quantity_received, "receipt", receipt)
       ELSE UNCHANGED <<current_stock, movements>>
    /\ last' = [op |-> "MaterialReceiptLineItem.save", receipt |-> receipt,
                po_line_item |-> po_line, material |-> material,
                quantity_received |-> quantity_received, quality_status |-> quality_status]
    /\ UNCHANGED <<work_order, adjustment_lines, receipt_view_vars, sales_vars>>

\* inventory/views.py: MaterialReceiptViewSet.confirm.  The first statement
\* of the view reads receipt.status, and MaterialReceipt declares no such
\* field: the read raises AttributeError and the request ends in a 500.  The
\* statements after it are those of the view, with receipt_status for the
\* status they read and write and the one-argument update_stock they call
\* adding the quantity to the stock.

\* core/models.py: the fields of BaseModel, which every model inherits
BaseModelFields ==
    {"id", "created_at", "updated_at", "created_by", "updated_by", "is_active"}

\* the fields of MaterialReceipt
MaterialReceiptFields ==
    BaseModelFields \cup
    {"receipt_number", "purchase_order", "supplier", "receipt_date", "received_by",
     "warehouse", "invoice_number", "vehicle_number", "driver_name", "notes"}

\* the purchase order of a receipt
ReceiptOrder(receipt) == "PO1"

\* material.update_stock(line_item.quantity_received) of the view
view_update_stock(stock, material, quantity) ==
    [stock EXCEPT ![material] = @ + quantity]

\* the stock after the loop over the first n lines of the receipt
RECURSIVE ConfirmStock(_, _, _)
ConfirmStock(stock, lines, n) ==
    IF n = 0 THEN stock
    ELSE view_update_stock(ConfirmStock(stock, lines, n - 1),
                           lines[n].material, lines[n].quantity_received)

\* the movements the loop creates: one per line, movement_type 'in'
ConfirmMovements(receipt, lines) ==
    [i \in 1 .. Len(lines) |->
        [material |-> lines[i].material, movement_type |-> "in",
         quantity |-> lines[i].quantity_received, reference_number |-> receipt]]

RECURSIVE SumReceived(_, _, _)
SumReceived(lines, material, n) ==
    IF n = 0 THEN 0
    ELSE SumReceived(lines, material, n - 1)
         + (IF lines[n].material = material THEN lines[n].quantity_received ELSE 0)

\* Sum('quantity_received') over the lines of the order's confirmed receipts
\* for one material
TotalReceived(status, lines, order, material) ==
    LET confirmed == {r \in Receipts : ReceiptOrder(r) = order /\ status[r] = "confirmed"}
        RECURSIVE Total(_)
        Total(S) ==
            IF S = {} THEN 0
            ELSE LET r == CHOOSE x \in S : TRUE
                 IN SumReceived(lines[r], material, Len(lines[r])) + Total(S \ {r})
    IN Total(confirmed)

\* all_received of the view: no line of the order has received less than ordered
AllReceived(status, lines, order) ==
    \A l \in POLines :
        po_lines[l].order = order =>
            ~ (TotalReceived(status, lines, order, po_lines[l].material)
                    < po_lines[l].quantity_ordered)

ConfirmedOrderStatus(all_received) ==
    IF all_received THEN "completed" ELSE "partially_received"

MaterialReceipt_confirm(receipt) ==
    /\ steps < MaxSteps
    /\ steps' = steps + 1
    /\ pre' = Snapshot
    /\ IF "status" \notin MaterialReceiptFields
       THEN /\ UNCHANGED <<receipt_status, current_stock, view_movements,
                           purchase_orders, status_log>>
            /\ last' = [op |-> "MaterialReceipt.confirm", receipt |-> receipt,
                        response |-> 500]
       ELSE IF receipt_status[receipt] = "pending"
       THEN LET status == [receipt_status EXCEPT ![receipt] = "confirmed"]
                order == ReceiptOrder(receipt)
                order_status == ConfirmedOrderStatus(AllReceived(status, receipt_lines, order))
            IN
            /\ receipt_status' = status
            /\ current_stock' = ConfirmStock(current_stock, receipt_lines[receipt],
                                             Len(receipt_lines[receipt]))
            /\ view_movements' = view_movements \o
                                    ConfirmMovements(receipt, receipt_lines[receipt])
            /\ purchase_orders' = [purchase_orders EXCEPT ![order].status = order_status]
            /\ status_log' = [status_log EXCEPT ![order] = Append(@, order_status)]
            /\ last' = [op |-> "MaterialReceipt.confirm", receipt |-> receipt,
                        response |-> 200]
       ELSE /\ UNCHANGED <<receipt_status, current_stock, view_movements,
                           purchase_orders, status_log>>
            /\ last' = [op |-> "MaterialReceipt.confirm", receipt |-> receipt,
                        response |-> 400]
    /\ UNCHANGED <<movements, po_lines, work_order, receipt_lines, adjustment_lines,
                   sales_vars, initial_stock, requests, ext_vars>>

\* StockAdjustmentLineItem.save of a new line
Abs(x) == IF x < 0 THEN -x ELSE x

UnitCosts == {0, 3}

AdjustmentDifference(line_stock, adjusted_stock) == adjusted_stock - line_stock

AdjustmentTotalValue(difference, unit_cost) == Abs(difference) * unit_cost

\* a zero difference booked as an inbound adjustment
AdjustmentType_zero_in(difference) ==
    IF difference >= 0 THEN "adjustment_in" ELSE "adjustment_out"

AdjustmentType(difference) ==
    IF difference > 0 THEN "adjustment_in" ELSE "adjustment_out"

StockAdjustmentLineItem_save(adjustment, material, line_stock, adjusted_stock, unit_cost) ==
    LET difference == AdjustmentDifference(line_stock, adjusted_stock) IN
    /\ Step
    /\ adjustment_lines' = Append(adjustment_lines,
            [stock_adjustment |-> adjustment, material |-> material,
             current_stock |-> line_stock, adjusted_stock |-> adjusted_stock,
             difference |-> difference, unit_cost |-> unit_cost,
             total_value |-> AdjustmentTotalValue(difference, unit_cost)])
    /\ current_stock' = update_stock_row(current_stock, material,
            current_stock[material], Abs(difference), AdjustmentType(difference))
    /\ movements' = update_stock_movements(movements, material,
            current_stock[material], Abs(difference), AdjustmentType(difference), adjustment)
    /\ last' = [op |-> "StockAdjustmentLineItem.save", material |-> material,
                stock_adjustment |-> adjustment, current_stock |-> line_stock,
                adjusted_stock |-> adjusted_stock, unit_cost |-> unit_cost]
    /\ UNCHANGED <<po_lines, purchase_orders, work_order, receipt_lines>>
    /\ UNCHANGED <<receipt_view_vars, sales_vars>>

\* production/models.py: ProductionEntry.save
ENTRY_TYPES == {"production", "rework", "scrap", "material_consumption"}

QUALITY_GRADES == {"A", "B", "C", "reject"}

\* the grades the entries of the model carry: blank is allowed (blank=True)
EntryGrades == {"A", "reject", ""}

\* the work order row with the quality grade ignored
ProductionEntry_work_order_grade_ignored(wo, entry_type, quality_grade, quantity) ==
    IF entry_type = "production"
    THEN [wo EXCEPT !.produced_quantity = @ + quantity]
    ELSE wo

\* the work order row after the entry: produced or rejected quantity grows
ProductionEntry_work_order(wo, entry_type, quality_grade, quantity) ==
    IF entry_type = "production"
    THEN IF quality_grade # "reject"
         THEN [wo EXCEPT !.produced_quantity = @ + quantity]
         ELSE [wo EXCEPT !.rejected_quantity = @ + quantity]
    ELSE wo

\* the transaction type the entry passes to update_stock, "" when it calls none
ProductionEntry_transaction_type(entry_type) ==
    IF entry_type = "production" THEN "production_receipt"
    ELSE IF entry_type = "material_consumption" THEN "production_issue"
    ELSE ""

ProductionEntry_save(entry_type, quality_grade, material, quantity) ==
    LET ttype == ProductionEntry_transaction_type(entry_type) IN
    /\ Step
    /\ work_order' = ProductionEntry_work_order(work_order, entry_type, quality_grade, quantity)
    /\ IF ttype # ""
       THEN /\ current_stock' = update_stock_row(current_stock, material,
                    current_stock[material], quantity, ttype)
            /\ movements' = update_stock_movements(movements, material,
                    current_stock[material], quantity, ttype, work_order.wo_number)
       ELSE UNCHANGED <<current_stock, movements>>
    /\ last' = [op |-> "ProductionEntry.save", entry_type |-> entry_type,
                quality_grade |-> quality_grade, material |-> material,
                quantity |-> quantity]
    /\ UNCHANGED <<po_lines, purchase_orders, receipt_lines, adjustment_lines>>
    /\ UNCHANGED <<receipt_view_vars, sales_vars>>

----------------------------------------------------------------------------
\* Saves of order lines and updates of an order's discount

\* the rows only the inventory app writes
inventory_vars ==
    <<current_stock, movements, po_lines, purchase_orders, work_order,
      receipt_lines, adjustment_lines, receipt_view_vars>>

\* PurchaseOrderLineItem.save with the fields the caller set on the line
PurchaseOrderLineItem_save(line, quantity, unit_price, discount, is_active, line_total) ==
    LET row == PurchaseOrderLineItem_saved(
                    [po_lines[line] EXCEPT !.quantity_ordered = quantity,
                                           !.unit_price = unit_price,
                                           !.discount_percentage = discount,
                                           !.is_active = is_active,
                                           !.line_total = line_total])
        lines == [po_lines EXCEPT ![line] = row]
    IN
    /\ Step
    /\ po_lines' = lines
    /\ purchase_orders' = [purchase_orders EXCEPT ![row.order] =
                                calculate_totals(@, lines, row.order)]
    /\ last' = [op |-> "PurchaseOrderLineItem.save", line |-> line,
                order |-> row.order, line_total |-> line_total]
    /\ UNCHANGED <<current_stock, movements, work_order, receipt_lines,
                   adjustment_lines, receipt_view_vars, sales_vars>>

\* SalesOrderLineItem.save with the fields the caller set on the line
SalesOrderLineItem_save(line, quantity, unit_price, discount, is_active, line_total) ==
    LET row == SalesOrderLineItem_saved(
                    [so_lines[line] EXCEPT !.quantity = quantity,
                                           !.unit_price = unit_price,
                                           !.discount_percentage = discount,
                                           !.is_active = is_active,
                                           !.line_total = line_total])
        lines == [so_lines EXCEPT ![line] = row]
    IN
    /\ Step
    /\ so_lines' = lines
    /\ sales_orders' = [sales_orders EXCEPT ![row.order] =
                                SalesOrder_calculate_totals(@, lines, row.order)]
    /\ last' = [op |-> "SalesOrderLineItem.save", line |-> line,
                order |-> row.order, line_total |-> line_total]
    /\ UNCHANGED inventory_vars

\* an update of the order through the ModelViewSet: discount_amount is written,
\* the totals are not recomputed
PurchaseOrder_update(order, discount_amount) ==
    /\ Step
    /\ purchase_orders' = [purchase_orders EXCEPT ![order].discount_amount = discount_amount]
    /\ last' = [op |-> "PurchaseOrder.update", order |-> order]
    /\ UNCHANGED <<current_stock, movements, po_lines, work_order, receipt_lines,
                   adjustment_lines, receipt_view_vars, sales_vars>>

SalesOrder_update(order, discount_amount) ==
    /\ Step
    /\ sales_orders' = [sales_orders EXCEPT ![order].discount_amount = discount_amount]
    /\ last' = [op |-> "SalesOrder.update", order |-> order]
    /\ UNCHANGED <<so_lines, inventory_vars>>

\* the prices, discounts and activity flags of the saved lines
\* (unit_price in hundredths, discount_percentage in percent)
LineInputs ==
    {[unit_price |-> 100, discount |-> 0, is_active |-> TRUE],
     [unit_price |-> 200, discount |-> 50, is_active |-> TRUE],
     [unit_price |-> 100, discount |-> 50, is_active |-> FALSE]}

\* the line_total values a caller supplies
SuppliedLineTotals == {0, 999}

----------------------------------------------------------------------------
\* The status actions of the order views

PO_STATUS_CHOICES ==
    {"draft", "sent", "confirmed", "partially_received", "received", "cancelled"}

SO_STATUS_CHOICES ==
    {"draft", "confirmed", "in_production", "ready_to_ship", "shipped", "delivered",
     "cancelled"}

\* a status action counts one step and remembers the rows it found
StatusStep ==
    /\ steps < MaxSteps
    /\ steps' = steps + 1
    /\ pre' = Snapshot
    /\ UNCHANGED <<initial_stock, requests, ext_vars>>

\* order.status = new_status; order.save(); 200 -- or 400 and nothing written
PurchaseOrder_action(name, order, allowed, new_status) ==
    /\ StatusStep
    /\ IF allowed
       THEN /\ purchase_orders' = [purchase_orders EXCEPT ![order].status = new_status]
            /\ status_log' = [status_log EXCEPT ![order] = Append(@, new_status)]
            /\ last' = [op |-> name, order |-> order, response |-> 200]
       ELSE /\ UNCHANGED <<purchase_orders, status_log>>
            /\ last' = [op |-> name, order |-> order, response |-> 400]
    /\ UNCHANGED <<current_stock, movements, po_lines, work_order, receipt_lines,
                   adjustment_lines, receipt_view_vars, sales_vars>>

\* send allowed for a draft as well
PurchaseOrder_send_allowed_from_draft(status) == status \in {"draft", "approved"}

PurchaseOrder_approve_allowed(status) == status = "draft"

PurchaseOrder_send_allowed(status) == status = "approved"

PurchaseOrder_cancel_allowed(status) == status \in {"draft", "approved", "sent"}

PurchaseOrder_approve(order) ==
    PurchaseOrder_action("PurchaseOrder.approve", order,
        PurchaseOrder_approve_allowed(purchase_orders[order].status), "approved")

PurchaseOrder_send(order) ==
    PurchaseOrder_action("PurchaseOrder.send", order,
        PurchaseOrder_send_allowed(purchase_orders[order].status), "sent")

PurchaseOrder_cancel(order) ==
    PurchaseOrder_action("PurchaseOrder.cancel", order,
        PurchaseOrder_cancel_allowed(purchase_orders[order].status), "cancelled")

SalesOrder_action(name, order, allowed, new_status) ==
    /\ StatusStep
    /\ IF allowed
       THEN /\ sales_orders' = [sales_orders EXCEPT ![order].status = new_status]
            /\ status_log' = [status_log EXCEPT ![order] = Append(@, new_status)]
            /\ last' = [op |-> name, order |-> order, response |-> 200]
       ELSE /\ UNCHANGED <<sales_orders, status_log>>
            /\ last' = [op |-> name, order |-> order, response |-> 400]
    /\ UNCHANGED <<so_lines, inventory_vars>>

\* SalesOrder.can_be_cancelled
can_be_cancelled(status) == status \in {"draft", "confirmed"}

\* cancel allowed until the order is shipped
SalesOrder_cancel_allowed_until_shipped(status) ==
    status \in {"draft", "confirmed", "in_production", "ready_to_ship"}

SalesOrder_confirm_allowed(status) == status = "draft"

SalesOrder_cancel_allowed(status) == status \in {"draft", "confirmed"}

SalesOrder_confirm(order) ==
    SalesOrder_action("SalesOrder.confirm", order,
        SalesOrder_confirm_allowed(sales_orders[order].status), "confirmed")

SalesOrder_cancel(order) ==
    SalesOrder_action("SalesOrder.cancel", order,
        SalesOrder_cancel_allowed(sales_orders[order].status), "cancelled")

----------------------------------------------------------------------------
\* The ledger of inventory/models.py and production/models.py, one call after
\* another.

CallUpdateStock ==
    \E m \in Materials, q \in Quantities, t \in TRANSACTION_TYPES \cup {UnknownType} :
        UpdateStock(m, q, t, "REF")

SaveReceiptLine ==
    \E r \in Receipts, l \in POLines, q \in Quantities, s \in QUALITY_STATUSES :
        MaterialReceiptLineItem_save(r, l, po_lines[l].material, q, s)

SaveAdjustmentLine ==
    \E m \in Materials, c \in StockLevels, a \in StockLevels, u \in UnitCosts :
        StockAdjustmentLineItem_save("ADJ1", m, c, a, u)

SaveProductionEntry ==
    \E e \in ENTRY_TYPES, g \in EntryGrades, m \in Materials, q \in Quantities :
        ProductionEntry_save(e, g, m, q)

\* Spec: calls of Material.update_stock, one after another
Next == CallUpdateStock

Spec == Init /\ [][Next]_vars

\* SpecReceipt: the life of a material receipt: its lines are saved, the
\* confirm view is requested
ConfirmReceipt == \E r \in Receipts : MaterialReceipt_confirm(r)

NextReceipt == SaveReceiptLine \/ ConfirmReceipt

SpecReceipt == Init /\ [][NextReceipt]_vars

\* SpecTotals: order lines are saved and order discounts are changed
OrderDiscounts == {0, 10}

InitOrders == \E d \in OrderDiscounts : InitRows(0, d, Drafts)

SavePurchaseOrderLine ==
    \E l \in POLines, q \in Quantities, i \in LineInputs, t \in SuppliedLineTotals :
        PurchaseOrderLineItem_save(l, q, i.unit_price, i.discount, i.is_active, t)

SaveSalesOrderLine ==
    \E l \in SOLines, q \in Quantities, i \in LineInputs, t \in SuppliedLineTotals :
        SalesOrderLineItem_save(l, q, i.unit_price, i.discount, i.is_active, t)

UpdatePurchaseOrder ==
    \E o \in PurchaseOrders, d \in OrderDiscounts : PurchaseOrder_update(o, d)

UpdateSalesOrder ==
    \E o \in SalesOrders, d \in OrderDiscounts : SalesOrder_update(o, d)

NextTotals ==
    SavePurchaseOrderLine \/ SaveSalesOrderLine \/ UpdatePurchaseOrder \/ UpdateSalesOrder

SpecTotals == InitOrders /\ [][NextTotals]_vars

\* SpecPurchaseOrder: approve, send and cancel requests on purchase orders
\* that start in any status an order can be stored with
InitialPOStatuses == PO_STATUS_CHOICES \cup {"completed"}

InitPurchaseOrders ==
    \E st \in [PurchaseOrders -> InitialPOStatuses] :
        InitRows(0, 0, [o \in PurchaseOrders \cup SalesOrders |->
                            IF o \in PurchaseOrders THEN st[o] ELSE "draft"])

ApprovePurchaseOrder == \E o \in PurchaseOrders : PurchaseOrder_approve(o)

SendPurchaseOrder == \E o \in PurchaseOrders : PurchaseOrder_send(o)

CancelPurchaseOrder == \E o \in PurchaseOrders : PurchaseOrder_cancel(o)

NextPurchaseOrder == ApprovePurchaseOrder \/ SendPurchaseOrder \/ CancelPurchaseOrder

SpecPurchaseOrder == InitPurchaseOrders /\ [][NextPurchaseOrder]_vars

\* SpecSalesOrder: confirm and cancel requests on sales orders that start in
\* any declared status
InitSalesOrders ==
    \E st \in [SalesOrders -> SO_STATUS_CHOICES] :
        InitRows(0, 0, [o \in PurchaseOrders \cup SalesOrders |->
                            IF o \in SalesOrders THEN st[o] ELSE "draft"])

ConfirmSalesOrder == \E o \in SalesOrders : SalesOrder_confirm(o)

CancelSalesOrder == \E o \in SalesOrders : SalesOrder_cancel(o)

NextSalesOrder == ConfirmSalesOrder \/ CancelSalesOrder

SpecSalesOrder == InitSalesOrders /\ [][NextSalesOrder]_vars

\* SpecAdjustment: saves of stock adjustment lines
NextAdjustment == SaveAdjustmentLine

SpecAdjustment == Init /\ [][NextAdjustment]_vars

\* SpecProduction: saves of production entries
NextProduction == SaveProductionEntry

SpecProduction == Init /\ [][NextProduction]_vars

----------------------------------------------------------------------------
\* SpecRace: two requests that call Material.update_stock, statement by
\* statement.  A request loads the material (get_object or a related-object
\* fetch), then runs update_stock on its in-memory object: the arithmetic and
\* self.save() (one UPDATE of the whole row), then StockMovement.objects.create
\* (one INSERT).  Nothing in update_stock locks the row or re-reads it.

\* the request fetches the material row into its own object
LoadMaterial(r, material) ==
    /\ requests[r].pc = "idle"
    /\ requests' = [requests EXCEPT ![r] =
            [@ EXCEPT !.pc = "loaded", !.material = material,
                      !.current_stock = current_stock[material],
                      !.loaded_stock = current_stock[material],
                      !.loaded_at = steps + 1]]
    /\ steps' = steps + 1
    /\ UNCHANGED <<current_stock, movements>>

\* update_stock up to and including self.save()
UpdateStockSave(r, quantity, transaction_type) ==
    LET obj == requests[r] IN
    /\ obj.pc = "loaded"
    /\ requests' = [requests EXCEPT ![r] =
            [@ EXCEPT !.pc = "saved", !.old_stock = obj.current_stock,
                      !.current_stock = NewStock(obj.current_stock, quantity, transaction_type),
                      !.quantity = quantity, !.transaction_type = transaction_type,
                      !.saved_at = steps + 1]]
    /\ current_stock' = update_stock_row(current_stock, obj.material,
                            obj.current_stock, quantity, transaction_type)
    /\ steps' = steps + 1
    /\ UNCHANGED movements

\* the StockMovement.objects.create(...) that ends update_stock
UpdateStockCreate(r) ==
    LET obj == requests[r] IN
    /\ obj.pc = "saved"
    /\ requests' = [requests EXCEPT ![r] = [@ EXCEPT !.pc = "done"]]
    /\ movements' = update_stock_movements(movements, obj.material, obj.old_stock,
                            obj.quantity, obj.transaction_type, r)
    /\ steps' = steps + 1
    /\ UNCHANGED current_stock

RaceFrame ==
    UNCHANGED <<po_lines, purchase_orders, work_order, receipt_lines, adjustment_lines,
                receipt_view_vars, sales_vars, status_log, initial_stock, last, pre,
                ext_vars>>

RaceLoad == (\E r \in Requests, m \in Materials : LoadMaterial(r, m)) /\ RaceFrame

\* one adding, one subtracting and one neutral type
RaceTypes == {"receipt", "issue", "return"}

RaceSave ==
    /\ \E r \in Requests, q \in Quantities, t \in RaceTypes :
            UpdateStockSave(r, q, t)
    /\ RaceFrame

RaceCreate == (\E r \in Requests : UpdateStockCreate(r)) /\ RaceFrame

NextRace == RaceLoad \/ RaceSave \/ RaceCreate

SpecRace == Init /\ [][NextRace]_vars

----------------------------------------------------------------------------
\* Helpers of the properties

\* the indices of the movements of a material, in creation order
MovementsOf(moves, material) ==
    {i \in 1 .. Len(moves) : moves[i].material = material}

\* the movement of the material created right before movement i, 0 if none
PrecedingMovement(moves, i) ==
    LET before == {j \in MovementsOf(moves, moves[i].material) : j < i}
    IN IF before = {} THEN 0 ELSE CHOOSE j \in before : \A k \in before : k <= j

\* +quantity, -quantity or 0, by the type lists of the claim
SignedQuantity(move) ==
    IF move.transaction_type \in {"receipt", "production_receipt", "adjustment_in"}
    THEN move.quantity
    ELSE IF move.transaction_type \in {"issue", "production_issue", "adjustment_out", "sale"}
    THEN 0 - move.quantity
    ELSE 0

RECURSIVE SignedSum(_, _, _)
SignedSum(moves, material, n) ==
    IF n = 0 THEN 0
    ELSE SignedSum(moves, material, n - 1)
         + (IF moves[n].material = material THEN SignedQuantity(moves[n]) ELSE 0)

LastMovement == movements[Len(movements)]

----------------------------------------------------------------------------
\* C1: every call of Material.update_stock creates exactly one StockMovement
\* for that material, with the quantity of the call, previous_stock = the
\* stock before the call and current_stock = the stock after it; with the
\* calls run one after another, the movements of a material form a chain
\* (each previous_stock is the preceding movement's current_stock) and the
\* newest movement's current_stock is Material.current_stock.
C1_MovementPerCallAndChain ==
    /\ last.op = "update_stock" =>
        /\ Len(movements) = Len(pre.movements) + 1
        /\ SubSeq(movements, 1, Len(pre.movements)) = pre.movements
        /\ LastMovement.material = last.material
        /\ LastMovement.quantity = last.quantity
        /\ LastMovement.transaction_type = last.transaction_type
        /\ LastMovement.previous_stock = pre.current_stock[last.material]
        /\ LastMovement.current_stock = current_stock[last.material]
    /\ \A i \in 1 .. Len(movements) :
        LET j == PrecedingMovement(movements, i) IN
        /\ j # 0 => movements[i].previous_stock = movements[j].current_stock
        /\ j = 0 => movements[i].previous_stock = initial_stock[movements[i].material]
        /\ (\A k \in MovementsOf(movements, movements[i].material) : k <= i)
            => movements[i].current_stock = current_stock[movements[i].material]

\* two calls on one material, both of which changed its stock
C1_Witness ==
    /\ last.op = "update_stock"
    /\ Len(movements) = 2
    /\ movements[1].material = movements[2].material
    /\ movements[1].previous_stock # movements[1].current_stock
    /\ movements[2].previous_stock # movements[2].current_stock

\* C2: update_stock adds the quantity for 'receipt', 'production_receipt' and
\* 'adjustment_in', subtracts it for 'issue', 'production_issue',
\* 'adjustment_out' and 'sale', and leaves the stock unchanged for every other
\* type, still recording a movement with previous_stock = current_stock; after
\* any run the stock is the initial stock plus the added minus the subtracted
\* quantities.
C2_StockArithmetic ==
    /\ last.op = "update_stock" =>
        LET m == last.material
            q == last.quantity
            t == last.transaction_type
        IN
        /\ t \in {"receipt", "production_receipt", "adjustment_in"}
            => current_stock[m] = pre.current_stock[m] + q
        /\ t \in {"issue", "production_issue", "adjustment_out", "sale"}
            => current_stock[m] = pre.current_stock[m] - q
        /\ t \in {"transfer_in", "transfer_out", "return", UnknownType}
            => /\ current_stock[m] = pre.current_stock[m]
               /\ Len(movements) = Len(pre.movements) + 1
               /\ LastMovement.transaction_type = t
               /\ LastMovement.previous_stock = LastMovement.current_stock
        /\ \A o \in Materials \ {m} : current_stock[o] = pre.current_stock[o]
    /\ \A m \in Materials :
        current_stock[m] = initial_stock[m] + SignedSum(movements, m, Len(movements))

\* a sale after a transfer on the same material: one call of each kind
C2_Witness ==
    /\ last.op = "update_stock"
    /\ last.transaction_type = "sale"
    /\ Len(movements) = 2
    /\ movements[1].transaction_type = "transfer_in"
    /\ movements[1].material = last.material
    /\ movements[1].previous_stock = movements[1].current_stock
    /\ current_stock[last.material] = initial_stock[last.material] - last.quantity

\* C3: update_stock works on the caller's in-memory Material and saves the
\* whole row, without lock or atomic increment: when two requests have both
\* loaded the same material at stock S before either saves, then after both
\* calls the stored current_stock is S changed by the quantity of the request
\* that saved last alone, while both movements exist and both carry
\* previous_stock = S.
C3_LastSaveWins ==
    \A a \in Requests, b \in Requests :
        ( /\ a # b
          /\ requests[a].pc = "done" /\ requests[b].pc = "done"
          /\ requests[a].material = requests[b].material
          /\ requests[a].loaded_at < requests[b].saved_at
          /\ requests[b].loaded_at < requests[a].saved_at
          /\ requests[a].saved_at < requests[b].saved_at )
        => LET S == requests[a].loaded_stock
               m == requests[a].material
           IN
           /\ requests[b].loaded_stock = S
           /\ current_stock[m] =
                S + SignedQuantity([transaction_type |-> requests[b].transaction_type,
                                    quantity |-> requests[b].quantity])
           /\ Len(movements) = 2
           /\ \A i \in 1 .. 2 : movements[i].previous_stock = S /\ movements[i].material = m
           /\ {movements[1].reference, movements[2].reference} = {a, b}

\* a lost update: two receipts of 1 and 2 on the same material loaded at S,
\* both movements recorded, and the stored stock is S + 2 only
C3_Witness ==
    /\ requests["A"].pc = "done" /\ requests["B"].pc = "done"
    /\ requests["A"].material = requests["B"].material
    /\ requests["A"].loaded_at < requests["B"].saved_at
    /\ requests["B"].loaded_at < requests["A"].saved_at
    /\ requests["A"].saved_at < requests["B"].saved_at
    /\ requests["A"].transaction_type = "receipt" /\ requests["A"].quantity = 1
    /\ requests["B"].transaction_type = "receipt" /\ requests["B"].quantity = 2
    /\ current_stock[requests["A"].material] = requests["A"].loaded_stock + 2
    /\ Len(movements) = 2
    /\ movements[1].previous_stock = movements[2].previous_stock

LastAdjustmentLine == adjustment_lines[Len(adjustment_lines)]

C6_ProductionEntrySave ==
    last.op = "ProductionEntry.save" =>
        LET m == last.material
            q == last.quantity
        IN
        /\ last.entry_type = "production" =>
            /\ last.quality_grade # "reject" =>
                    work_order = [pre.work_order EXCEPT !.produced_quantity = @ + q]
            /\ last.quality_grade = "reject" =>
                    work_order = [pre.work_order EXCEPT !.rejected_quantity = @ + q]
            /\ current_stock = [pre.current_stock EXCEPT ![m] = @ + q]
            /\ movements = Append(pre.movements,
                    [material |-> m, transaction_type |-> "production_receipt",
                     quantity |-> q, previous_stock |-> pre.current_stock[m],
                     current_stock |-> pre.current_stock[m] + q,
                     reference |-> pre.work_order.wo_number])
        /\ last.entry_type = "material_consumption" =>
            /\ work_order = pre.work_order
            /\ current_stock = [pre.current_stock EXCEPT ![m] = @ - q]
            /\ movements = Append(pre.movements,
                    [material |-> m, transaction_type |-> "production_issue",
                     quantity |-> q, previous_stock |-> pre.current_stock[m],
                     current_stock |-> pre.current_stock[m] - q,
                     reference |-> pre.work_order.wo_number])
        /\ last.entry_type \in {"rework", "scrap"} =>
            /\ work_order = pre.work_order
            /\ current_stock = pre.current_stock
            /\ movements = pre.movements

\* a rejected production entry after a consumption entry
C6_Witness ==
    /\ last.op = "ProductionEntry.save"
    /\ last.entry_type = "production"
    /\ last.quality_grade = "reject"
    /\ work_order.rejected_quantity = last.quantity
    /\ work_order.produced_quantity = 0
    /\ Len(movements) = 2
    /\ movements[1].transaction_type = "production_issue"
    /\ movements[2].transaction_type = "production_receipt"

\* the sum of line_total over the active lines of an order, line by line
ActiveTotal(lines, order) ==
    LET Part(l) == IF lines[l].order = order /\ lines[l].is_active
                   THEN lines[l].line_total ELSE 0
        RECURSIVE Total(_)
        Total(S) == IF S = {} THEN 0
                    ELSE LET l == CHOOSE x \in S : TRUE IN Part(l) + Total(S \ {l})
    IN Total(DOMAIN lines)

\* subtotal, 18% tax and total of an order row agree with its lines
TotalsAgree(order_row, lines, order) ==
    /\ order_row.subtotal = ActiveTotal(lines, order)
    /\ 100 * order_row.tax_amount = 18 * order_row.subtotal
    /\ order_row.total_amount =
            order_row.subtotal + order_row.tax_amount - order_row.discount_amount

ReceivedOnLines(material) ==
    LET RECURSIVE Total(_)
        Total(S) ==
            IF S = {} THEN 0
            ELSE LET r == CHOOSE x \in S : TRUE
                 IN SumReceived(receipt_lines[r], material, Len(receipt_lines[r]))
                    + Total(S \ {r})
    IN Total(Receipts)

\* the status of a receipt, if receipts have one
ReceiptStatus(status, receipt) ==
    IF "status" \in MaterialReceiptFields THEN status[receipt] ELSE ""

\* C8: over the life of a material receipt each line's quantity_received is
\* added to Material.current_stock at most once: confirm succeeds only while
\* the status is 'pending' (it sets 'confirmed' and adds each line's quantity
\* with one inbound movement per line), a confirm request on a receipt that is
\* not pending returns 400 and changes no stock, movement or purchase order,
\* and saving the line items does not add the same quantity a second time.
C8_ReceivedQuantityAddedOnce ==
    /\ \A m \in Materials :
            current_stock[m] - initial_stock[m] <= ReceivedOnLines(m)
    /\ (last.op = "MaterialReceipt.confirm" /\ last.response = 200) =>
            /\ ReceiptStatus(pre.receipt_status, last.receipt) = "pending"
            /\ receipt_status[last.receipt] = "confirmed"
            /\ Len(view_movements) = Len(pre.view_movements)
                                        + Len(receipt_lines[last.receipt])
    /\ (last.op = "MaterialReceipt.confirm"
            /\ ReceiptStatus(pre.receipt_status, last.receipt) # "pending") =>
            /\ last.response = 400
            /\ current_stock = pre.current_stock
            /\ movements = pre.movements
            /\ view_movements = pre.view_movements
            /\ purchase_orders = pre.purchase_orders
            /\ po_lines = pre.po_lines

\* C19: the confirmation of a material receipt of a purchase order sets the
\* order's status to 'completed' if for every line of the order the quantity
\* received for its material over the order's confirmed receipts is at least
\* the ordered quantity, and to 'partially_received' otherwise.
C19_ConfirmSetsOrderStatus ==
    last.op = "MaterialReceipt.confirm" =>
        LET order == ReceiptOrder(last.receipt)
            complete ==
                \A l \in POLines :
                    po_lines[l].order = order =>
                        TotalReceived(receipt_status, receipt_lines, order,
                                      po_lines[l].material)
                            >= po_lines[l].quantity_ordered
        IN \/ /\ last.response = 400
              /\ purchase_orders = pre.purchase_orders
           \/ /\ last.response = 200
              /\ receipt_status[last.receipt] = "confirmed"
              /\ purchase_orders[order].status =
                    (IF complete THEN "completed" ELSE "partially_received")

\* the request was answered 200 and wrote new_status if the order's status was
\* in from, and was answered 400 and wrote nothing otherwise
Answered(rows, pre_rows, from, new_status) ==
    LET o == last.order IN
    /\ pre_rows[o].status \in from =>
            /\ last.response = 200
            /\ rows = [pre_rows EXCEPT ![o].status = new_status]
    /\ pre_rows[o].status \notin from =>
            /\ last.response = 400
            /\ rows = pre_rows

\* the order had the status a at some time and the status b at a later time
Later(log, a, b) ==
    \E i \in 1 .. Len(log), j \in 1 .. Len(log) : i < j /\ log[i] = a /\ log[j] = b

\* C9: PurchaseOrder approve succeeds only from 'draft' (result 'approved'),
\* send only from 'approved' (result 'sent'), cancel only from 'draft',
\* 'approved' or 'sent' (result 'cancelled'); any other request returns 400
\* and leaves the status unchanged.  Hence an order that started as a draft
\* is 'sent' only after it has been 'approved', and no action changes a
\* cancelled order.
C9_PurchaseOrderStatus ==
    /\ last.op = "PurchaseOrder.approve" =>
            Answered(purchase_orders, pre.purchase_orders, {"draft"}, "approved")
    /\ last.op = "PurchaseOrder.send" =>
            Answered(purchase_orders, pre.purchase_orders, {"approved"}, "sent")
    /\ last.op = "PurchaseOrder.cancel" =>
            Answered(purchase_orders, pre.purchase_orders,
                     {"draft", "approved", "sent"}, "cancelled")
    /\ \A o \in PurchaseOrders :
        /\ status_log[o][Len(status_log[o])] = purchase_orders[o].status
        /\ (status_log[o][1] = "draft" /\ purchase_orders[o].status = "sent")
                => Later(status_log[o], "approved", "sent")
        /\ \A i \in 1 .. Len(status_log[o]) :
                status_log[o][i] = "cancelled" => i = Len(status_log[o])

\* a draft order approved and then sent
C9_Witness ==
    /\ last.op = "PurchaseOrder.send"
    /\ last.response = 200
    /\ status_log[last.order] = <<"draft", "approved", "sent">>

\* a send request refused on a cancelled order
C9_WitnessRefused ==
    /\ last.op = "PurchaseOrder.send"
    /\ last.response = 400
    /\ status_log[last.order] = <<"draft", "cancelled">>

\* C10: SalesOrder confirm succeeds only from 'draft' (result 'confirmed') and
\* cancel only from 'draft' or 'confirmed' (result 'cancelled'), the set of
\* SalesOrder.can_be_cancelled; from any other status the request returns 400
\* and the order is unchanged.  A cancelled order is never confirmed and
\* 'cancelled' is never left.
C10_SalesOrderStatus ==
    /\ last.op = "SalesOrder.confirm" =>
            Answered(sales_orders, pre.sales_orders, {"draft"}, "confirmed")
    /\ last.op = "SalesOrder.cancel" =>
            /\ Answered(sales_orders, pre.sales_orders, {"draft", "confirmed"}, "cancelled")
            /\ last.response = 200 <=> can_be_cancelled(pre.sales_orders[last.order].status)
    /\ \A o \in SalesOrders :
        /\ status_log[o][Len(status_log[o])] = sales_orders[o].status
        /\ ~ Later(status_log[o], "cancelled", "confirmed")
        /\ \A i \in 1 .. Len(status_log[o]) :
                status_log[o][i] = "cancelled" => i = Len(status_log[o])

\* a confirm request refused on an order that was cancelled as a draft
C10_Witness ==
    /\ last.op = "SalesOrder.confirm"
    /\ last.response = 400
    /\ status_log[last.order] = <<"draft", "cancelled">>
    /\ sales_orders[last.order].status = "cancelled"

----------------------------------------------------------------------------
\* sales/views.py: SalesOrderViewSet.create_invoice, one database statement
\* at a time.  The view runs in autocommit mode: get_object, the exists()
\* query and Invoice.objects.create are three statements, and other requests
\* may run between them.

MaxRequests == 3

\* Invoice.invoice_number is unique; create_invoice passes none, so the row
\* gets the CharField default ''
DefaultInvoiceNumber == ""

\* the insert is accepted without looking at invoice_number
Invoice_insert_allowed_any_number(rows, invoice_number) == TRUE

\* unique=True of Invoice.invoice_number
Invoice_insert_allowed(rows, invoice_number) ==
    \A i \in 1..Len(rows) : rows[i].invoice_number # invoice_number

\* Invoice.objects.filter(sales_order=order).exists()
Invoice_exists(rows, order) == \E i \in 1..Len(rows) : rows[i].sales_order = order

\* the row Invoice.objects.create writes from the loaded order
NewInvoice(order, row) ==
    [sales_order |-> order, invoice_number |-> DefaultInvoiceNumber,
     status |-> "draft", subtotal |-> row.subtotal, tax_amount |-> row.tax_amount,
     discount_amount |-> row.discount_amount, total_amount |-> row.total_amount,
     paid_amount |-> 0]

InvoiceStep(step, r, order, response) ==
    /\ last' = [op |-> "create_invoice", step |-> step, request |-> r, order |-> order,
                response |-> response, invoices_before |-> invoices]
    /\ UNCHANGED <<not_invoice_vars, steps>>

\* order = self.get_object(); if order.status != 'confirmed': 400
create_invoice_get_object(r, order) ==
    /\ sales_requests[r].pc \in {"idle", "done"}
    /\ requests_started < MaxRequests
    /\ requests_started' = requests_started + 1
    /\ LET row == sales_orders[order]
           response == IF row.status # "confirmed" THEN 400 ELSE 0
       IN /\ sales_requests' = [sales_requests EXCEPT ![r] =
                 [pc |-> IF response = 400 THEN "done" ELSE "status_checked",
                  order |-> order, row |-> row, response |-> response]]
          /\ InvoiceStep("get_object", r, order, response)
    /\ UNCHANGED <<invoices, payments>>

\* if Invoice.objects.filter(sales_order=order).exists(): 400
create_invoice_exists(r) ==
    /\ sales_requests[r].pc = "status_checked"
    /\ LET order == sales_requests[r].order
           response == IF Invoice_exists(invoices, order) THEN 400 ELSE 0
       IN /\ sales_requests' = [sales_requests EXCEPT
                 ![r].pc = IF response = 400 THEN "done" ELSE "exists_checked",
                 ![r].response = response]
          /\ InvoiceStep("exists", r, order, response)
    /\ UNCHANGED <<invoices, requests_started, payments>>

\* Invoice.objects.create(...): 201, or the IntegrityError of the unique
\* invoice_number, which the view does not catch (500)
create_invoice_create(r) ==
    /\ sales_requests[r].pc = "exists_checked"
    /\ LET order == sales_requests[r].order
           allowed == Invoice_insert_allowed(invoices, DefaultInvoiceNumber)
           response == IF allowed THEN 201 ELSE 500
       IN /\ invoices' = IF allowed
                         THEN Append(invoices, NewInvoice(order, sales_requests[r].row))
                         ELSE invoices
          /\ sales_requests' = [sales_requests EXCEPT ![r].pc = "done",
                                                      ![r].response = response]
          /\ InvoiceStep("create", r, order, response)
    /\ UNCHANGED <<requests_started, payments>>

\* orders in any of three statuses; the second order may already have an
\* invoice that was entered with a number of its own
InvoiceOrderStatuses == {"draft", "confirmed", "shipped"}

EnteredInvoice ==
    [sales_order |-> "SO2", invoice_number |-> "INV-001", status |-> "draft",
     subtotal |-> 0, tax_amount |-> 0, discount_amount |-> 0, total_amount |-> 0,
     paid_amount |-> 0]

InitInvoices ==
    \E st \in [SalesOrders -> InvoiceOrderStatuses], d \in OrderDiscounts,
       entered \in {<<>>, <<EnteredInvoice>>} :
        /\ BaseRows(0, d, [o \in PurchaseOrders \cup SalesOrders |->
                              IF o \in SalesOrders THEN st[o] ELSE "draft"])
        /\ invoices = entered
        /\ sales_requests = [r \in Requests |-> IdleSalesRequest]
        /\ requests_started = 0
        /\ payments = [p \in Payments |-> [invoice |-> 0, amount |-> 1]]
        /\ IdleQuotations /\ IdleFinance /\ IdlePlans /\ IdleEnergy

CreateInvoiceGetObject ==
    \E r \in Requests, o \in SalesOrders : create_invoice_get_object(r, o)

CreateInvoiceExists == \E r \in Requests : create_invoice_exists(r)

CreateInvoiceCreate == \E r \in Requests : create_invoice_create(r)

NextInvoice == CreateInvoiceGetObject \/ CreateInvoiceExists \/ CreateInvoiceCreate

SpecInvoice == InitInvoices /\ [][NextInvoice]_vars

\* the invoices of a sales order
InvoicesOf(order) == {i \in 1..Len(invoices) : invoices[i].sales_order = order}

\* C11: create_invoice answers 400 and creates nothing when the order is not
\* 'confirmed' or already has an invoice; the invoice it creates is for a
\* confirmed order without an invoice and carries the order's subtotal,
\* tax_amount, discount_amount and total_amount; and no sales order has more
\* than one invoice, however the requests interleave.
C11_OneInvoicePerOrder ==
    /\ \A o \in SalesOrders : Cardinality(InvoicesOf(o)) <= 1
    /\ last.op = "create_invoice" =>
         LET o == last.order
             before == last.invoices_before
         IN /\ (last.step = "get_object" /\ sales_orders[o].status # "confirmed")
                    => last.response = 400
            /\ (last.step = "exists" /\ Invoice_exists(before, o))
                    => last.response = 400
            /\ last.response # 201 => invoices = before
            /\ last.response = 201 =>
                 /\ sales_orders[o].status = "confirmed"
                 /\ ~Invoice_exists(before, o)
                 /\ Len(invoices) = Len(before) + 1
                 /\ SubSeq(invoices, 1, Len(before)) = before
                 /\ LET inv == invoices[Len(invoices)]
                    IN /\ inv.sales_order = o
                       /\ inv.subtotal = sales_orders[o].subtotal
                       /\ inv.tax_amount = sales_orders[o].tax_amount
                       /\ inv.discount_amount = sales_orders[o].discount_amount
                       /\ inv.total_amount = sales_orders[o].total_amount

\* two requests for the same confirmed order both passed the exists() check,
\* one created the invoice and the other one was stopped by the database
C11_Witness ==
    \E r1, r2 \in Requests :
        /\ r1 # r2
        /\ sales_requests[r1].order = sales_requests[r2].order
        /\ sales_requests[r1].response = 201
        /\ sales_requests[r2].response = 500
        /\ last.op = "create_invoice" /\ last.step = "create"

----------------------------------------------------------------------------
\* sales/views.py: QuotationViewSet.accept, reject and convert_to_order;
\* sales/models.py: Quotation.convert_to_order.  One request or call at a time.

QUOTATION_STATUS_CHOICES == {"draft", "sent", "accepted", "rejected", "expired"}

SalesOrderFields ==
    BaseModelFields \cup
    {"order_number", "customer", "order_date", "expected_delivery_date", "status",
     "priority", "sales_representative", "subtotal", "tax_amount", "discount_amount",
     "total_amount", "notes", "terms_and_conditions"}

SalesOrderLineItemFields ==
    BaseModelFields \cup
    {"sales_order", "product", "quantity", "unit_price", "discount_percentage",
     "line_total", "specifications", "delivery_date"}

\* the attributes of a Quotation and of a SalesOrder the view reaches for
QuotationRelatedManagers == {"quotationlineitem_set"}

SalesOrderMethods == {"calculate_totals", "can_be_cancelled"}

\* the keyword arguments of the two create calls of the view
ViewOrderKwargs ==
    {"customer", "order_date", "reference", "subtotal", "tax_amount",
     "discount_amount", "notes", "terms_and_conditions", "created_by"}

ViewLineKwargs ==
    {"sales_order", "product", "quantity", "unit_price", "discount_percentage", "notes"}

\* SalesOrder.order_number is unique and neither caller passes one
SalesOrder_insert_allowed(rows) ==
    \A i \in 1..Len(rows) : rows[i].order_number # ""

\* the SalesOrder row created from a quotation
NewQuotationOrder(q, row, total_amount) ==
    [quotation |-> q, order_number |-> "", status |-> "draft",
     subtotal |-> row.subtotal, tax_amount |-> row.tax_amount,
     discount_amount |-> row.discount_amount, total_amount |-> total_amount]

\* the SalesOrderLineItem rows created from the lines of a quotation
RECURSIVE NewQuotationOrderLines(_, _, _)
NewQuotationOrderLines(order_index, lines, active_only) ==
    IF lines = <<>> THEN <<>>
    ELSE LET item == Head(lines)
             rest == NewQuotationOrderLines(order_index, Tail(lines), active_only)
         IN IF active_only /\ ~item.is_active THEN rest
            ELSE <<[sales_order |-> order_index, quantity |-> item.quantity,
                    unit_price |-> item.unit_price,
                    discount_percentage |-> item.discount_percentage,
                    line_total |-> LineTotal(item.unit_price, item.discount_percentage,
                                             item.quantity)]>> \o rest

RECURSIVE SumOrderLines(_)
SumOrderLines(lines) ==
    IF lines = <<>> THEN 0 ELSE Head(lines).line_total + SumOrderLines(Tail(lines))

QuotationBefore ==
    [quotations |-> quotations, quotation_orders |-> quotation_orders,
     quotation_order_lines |-> quotation_order_lines]

QuotationStep(name, q, response, raised) ==
    /\ steps < MaxSteps
    /\ steps' = steps + 1
    /\ last' = [op |-> name, quotation |-> q, response |-> response, raised |-> raised,
                before |-> QuotationBefore]
    /\ UNCHANGED not_quotation_vars

\* accept allowed for a draft as well
Quotation_accept_allowed_from_draft(status) == status \in {"draft", "sent"}

Quotation_accept_allowed(status) == status = "sent"

Quotation_reject_allowed(status) == status = "sent"

\* quotation.status = new_status; quotation.save(); 200 -- or 400
Quotation_action(name, q, allowed, new_status) ==
    /\ QuotationStep(name, q, IF allowed THEN 200 ELSE 400, "")
    /\ quotations' = IF allowed THEN [quotations EXCEPT ![q].status = new_status]
                     ELSE quotations
    /\ UNCHANGED <<quotation_orders, quotation_order_lines>>

QuotationViewSet_accept(q) ==
    Quotation_action("QuotationViewSet.accept", q,
                     Quotation_accept_allowed(quotations[q].status), "accepted")

QuotationViewSet_reject(q) ==
    Quotation_action("QuotationViewSet.reject", q,
                     Quotation_reject_allowed(quotations[q].status), "rejected")

\* the totals of a created order after its lines were saved one by one
\* (SalesOrderLineItem.save calls calculate_totals); without lines the copied
\* amounts stay
QuotationOrderWithLines(order_row, lines) ==
    IF lines = <<>> THEN order_row
    ELSE LET subtotal == SumOrderLines(lines)
         IN [order_row EXCEPT !.subtotal = subtotal,
                              !.tax_amount = TaxAmount(subtotal),
                              !.total_amount = subtotal + TaxAmount(subtotal)
                                               - order_row.discount_amount]

\* Quotation.convert_to_order of sales/models.py
Quotation_convert_to_order(q) ==
    LET row == quotations[q]
        raised == IF row.status # "accepted" THEN "ValueError"
                  ELSE IF ~SalesOrder_insert_allowed(quotation_orders)
                       THEN "IntegrityError" ELSE ""
        lines == NewQuotationOrderLines(Len(quotation_orders) + 1,
                                        QuotationLineItems[q], TRUE)
    IN /\ QuotationStep("Quotation.convert_to_order", q, 0, raised)
       /\ IF raised = ""
          THEN /\ quotation_orders' = Append(quotation_orders,
                     QuotationOrderWithLines(
                         NewQuotationOrder(q, row, row.total_amount), lines))
               /\ quotation_order_lines' = quotation_order_lines \o lines
          ELSE UNCHANGED <<quotation_orders, quotation_order_lines>>
       /\ UNCHANGED quotations

\* the statement of QuotationViewSet.convert_to_order that raises, if any:
\* "order" before the order is inserted, "lines" before a line is inserted,
\* "totals" after the lines were inserted
ViewConvertFailure(orders, quotation_lines) ==
    IF ~(ViewOrderKwargs \subseteq SalesOrderFields)
    THEN [stage |-> "order", raised |-> "TypeError"]
    ELSE IF "expected_delivery_date" \notin ViewOrderKwargs
            \/ ~SalesOrder_insert_allowed(orders)
    THEN [stage |-> "order", raised |-> "IntegrityError"]
    ELSE IF "line_items" \notin QuotationRelatedManagers
    THEN [stage |-> "lines", raised |-> "AttributeError"]
    ELSE IF quotation_lines # <<>> /\ ~(ViewLineKwargs \subseteq SalesOrderLineItemFields)
    THEN [stage |-> "lines", raised |-> "TypeError"]
    ELSE IF "calculate_total" \notin SalesOrderMethods
    THEN [stage |-> "totals", raised |-> "AttributeError"]
    ELSE [stage |-> "done", raised |-> ""]

\* QuotationViewSet.convert_to_order: 400 unless accepted; otherwise the
\* statements up to the one that raises (500), or all of them (201)
QuotationViewSet_convert_to_order(q) ==
    LET row == quotations[q]
        refused == row.status # "accepted"
        failure == ViewConvertFailure(quotation_orders, QuotationLineItems[q])
        lines == NewQuotationOrderLines(Len(quotation_orders) + 1,
                                        QuotationLineItems[q], FALSE)
        order_row == NewQuotationOrder(q, row, 0)
    IN /\ QuotationStep("QuotationViewSet.convert_to_order", q,
                        IF refused THEN 400
                        ELSE IF failure.stage = "done" THEN 201 ELSE 500,
                        IF refused THEN "" ELSE failure.raised)
       /\ IF refused \/ failure.stage = "order"
          THEN UNCHANGED <<quotations, quotation_orders, quotation_order_lines>>
          ELSE IF failure.stage = "lines"
          THEN /\ quotation_orders' = Append(quotation_orders, order_row)
               /\ UNCHANGED <<quotations, quotation_order_lines>>
          ELSE /\ quotation_orders' = Append(quotation_orders,
                                             QuotationOrderWithLines(order_row, lines))
               /\ quotation_order_lines' = quotation_order_lines \o lines
               /\ IF failure.stage = "done"
                  THEN quotations' = [quotations EXCEPT ![q].status = "converted"]
                  ELSE UNCHANGED quotations

\* quotations in any declared status
InitQuotations ==
    \E st \in [Quotations -> QUOTATION_STATUS_CHOICES] :
        /\ BaseRows(0, 0, Drafts)
        /\ IdleInvoices /\ IdleFinance /\ IdlePlans /\ IdleEnergy
        /\ quotations = [q \in Quotations |-> InitQuotation(q, st[q])]
        /\ quotation_orders = <<>>
        /\ quotation_order_lines = <<>>

AcceptQuotation == \E q \in Quotations : QuotationViewSet_accept(q)

RejectQuotation == \E q \in Quotations : QuotationViewSet_reject(q)

ConvertQuotationView == \E q \in Quotations : QuotationViewSet_convert_to_order(q)

ConvertQuotation == \E q \in Quotations : Quotation_convert_to_order(q)

NextQuotation ==
    AcceptQuotation \/ RejectQuotation \/ ConvertQuotationView \/ ConvertQuotation

SpecQuotation == InitQuotations /\ [][NextQuotation]_vars

\* the last operation left the quotations and the created rows as they were
QuotationUntouched == QuotationBefore = last.before

\* C12: accept and reject answer 200 only for a 'sent' quotation and 400
\* otherwise; for a quotation that is not 'accepted' Quotation.convert_to_order
\* raises ValueError and the convert_to_order endpoint answers 400; in each of
\* these error cases the quotation is unchanged and no SalesOrder or
\* SalesOrderLineItem is created.
C12_QuotationGuards ==
    /\ last.op \in {"QuotationViewSet.accept", "QuotationViewSet.reject"} =>
         LET was == last.before.quotations[last.quotation].status
         IN /\ last.response = 200 <=> was = "sent"
            /\ last.response = 400 <=> was # "sent"
            /\ last.response = 400 => QuotationUntouched
            /\ last.response = 200 =>
                 quotations[last.quotation].status =
                     (IF last.op = "QuotationViewSet.accept" THEN "accepted" ELSE "rejected")
    /\ last.op = "Quotation.convert_to_order" =>
         LET was == last.before.quotations[last.quotation].status
         IN /\ was # "accepted" => (last.raised = "ValueError" /\ QuotationUntouched)
            /\ quotation_orders # last.before.quotation_orders => was = "accepted"
    /\ last.op = "QuotationViewSet.convert_to_order" =>
         LET was == last.before.quotations[last.quotation].status
         IN /\ was # "accepted" => (last.response = 400 /\ QuotationUntouched)
            /\ quotation_orders # last.before.quotation_orders => was = "accepted"

\* a quotation was accepted, and then a request to reject it was refused
C12_Witness ==
    /\ last.op = "QuotationViewSet.reject"
    /\ last.response = 400
    /\ last.before.quotations[last.quotation].status = "accepted"
    /\ steps = 2

\* the method raised ValueError for a quotation that is not accepted
C12_WitnessValueError ==
    /\ last.op = "Quotation.convert_to_order"
    /\ last.raised = "ValueError"

\* C13: a convert_to_order request on an accepted quotation creates one sales
\* order with one line item per quotation line item and sets the quotation's
\* status to 'converted'; afterwards convert_to_order, accept and reject are
\* refused with 400, so a quotation yields at most one sales order.
C13_ConvertOnce ==
    last.op = "QuotationViewSet.convert_to_order" =>
        LET q == last.quotation
            was == last.before.quotations[q].status
        IN /\ was = "accepted" =>
                /\ last.response = 201
                /\ Len(quotation_orders) = Len(last.before.quotation_orders) + 1
                /\ Len(quotation_order_lines) =
                       Len(last.before.quotation_order_lines) + Len(QuotationLineItems[q])
                /\ quotations[q].status = "converted"
           /\ was = "converted" => last.response = 400

----------------------------------------------------------------------------
\* sales/views.py: PaymentViewSet.confirm and InvoiceViewSet.mark_paid, one
\* request at a time.

INVOICE_STATUS_CHOICES == {"draft", "sent", "pending", "paid", "overdue", "cancelled"}

\* the fields of Payment: it has no status
PaymentFields ==
    BaseModelFields \cup
    {"payment_number", "customer", "invoice", "payment_date", "amount",
     "payment_method", "reference_number", "notes"}

\* Payment.objects.filter(invoice=invoice, status='confirmed')
\*     .aggregate(total=Sum('amount'))['total'] or Decimal('0')
RECURSIVE SumConfirmed(_, _, _)
SumConfirmed(rows, invoice, among) ==
    IF among = {} THEN 0
    ELSE LET p == CHOOSE x \in among : TRUE
         IN (IF rows[p].invoice = invoice /\ rows[p].status = "confirmed"
             THEN rows[p].amount ELSE 0)
            + SumConfirmed(rows, invoice, among \ {p})

\* the invoice after its paid amount was set to the total of its payments
InvoicePaid(invoice_row, total_payments) ==
    [invoice_row EXCEPT
        !.paid_amount = total_payments,
        !.status = IF total_payments >= invoice_row.total_amount THEN "paid"
                   ELSE IF total_payments > 0 THEN "partially_paid"
                   ELSE invoice_row.status]

PaymentBefore == [payments |-> payments, invoices |-> invoices]

PaymentStep(name, target, response, raised) ==
    /\ steps < MaxSteps
    /\ steps' = steps + 1
    /\ last' = [op |-> name, target |-> target, response |-> response,
                raised |-> raised, before |-> PaymentBefore]
    /\ UNCHANGED <<not_invoice_vars, sales_requests, requests_started>>

\* PaymentViewSet.confirm: reading payment.status raises AttributeError, the
\* model has no such field; the statements after it are those of the view
PaymentViewSet_confirm(p) ==
    IF "status" \notin PaymentFields
    THEN /\ PaymentStep("PaymentViewSet.confirm", p, 500, "AttributeError")
         /\ UNCHANGED <<payments, invoices>>
    ELSE IF payments[p].status = "pending"
    THEN LET confirmed == [payments EXCEPT ![p].status = "confirmed"]
             invoice == payments[p].invoice
         IN /\ PaymentStep("PaymentViewSet.confirm", p, 200, "")
            /\ payments' = confirmed
            /\ invoices' = IF invoice # 0
                           THEN [invoices EXCEPT ![invoice] =
                                   InvoicePaid(@, SumConfirmed(confirmed, invoice, Payments))]
                           ELSE invoices
    ELSE /\ PaymentStep("PaymentViewSet.confirm", p, 400, "")
         /\ UNCHANGED <<payments, invoices>>

Invoice_mark_paid_allowed(status) == status \in {"sent", "overdue"}

\* InvoiceViewSet.mark_paid
InvoiceViewSet_mark_paid(i) ==
    LET allowed == Invoice_mark_paid_allowed(invoices[i].status)
    IN /\ PaymentStep("InvoiceViewSet.mark_paid", i, IF allowed THEN 200 ELSE 400, "")
       /\ invoices' = IF allowed
                      THEN [invoices EXCEPT ![i].paid_amount = invoices[i].total_amount,
                                            ![i].status = "paid"]
                      ELSE invoices
       /\ UNCHANGED payments

\* one invoice in any declared status, two payments of which each may belong
\* to the invoice
PaymentInvoice(status) ==
    [sales_order |-> "SO1", invoice_number |-> "INV-001", status |-> status,
     subtotal |-> MaxQty, tax_amount |-> 0, discount_amount |-> 0,
     total_amount |-> MaxQty, paid_amount |-> 0]

InitPayments ==
    \E st \in INVOICE_STATUS_CHOICES,
       rows \in [Payments -> [invoice : {0, 1}, amount : Quantities]] :
        /\ BaseRows(0, 0, Drafts)
        /\ IdleQuotations /\ IdleFinance /\ IdlePlans /\ IdleEnergy
        /\ invoices = <<PaymentInvoice(st)>>
        /\ sales_requests = [r \in Requests |-> IdleSalesRequest]
        /\ requests_started = 0
        /\ payments = rows

ConfirmPayment == \E p \in Payments : PaymentViewSet_confirm(p)

MarkInvoicePaid == \E i \in 1..Len(invoices) : InvoiceViewSet_mark_paid(i)

NextPayment == ConfirmPayment \/ MarkInvoicePaid

SpecPayment == InitPayments /\ [][NextPayment]_vars

\* the status of a payment row, if it has one
PaymentStatus(row) == IF "status" \in DOMAIN row THEN row.status ELSE ""

RECURSIVE SumConfirmedAmounts(_, _)
SumConfirmedAmounts(invoice, among) ==
    IF among = {} THEN 0
    ELSE LET p == CHOOSE x \in among : TRUE
         IN (IF payments[p].invoice = invoice /\ PaymentStatus(payments[p]) = "confirmed"
             THEN payments[p].amount ELSE 0)
            + SumConfirmedAmounts(invoice, among \ {p})

\* C14: a confirm request confirms a payment only from status 'pending'; on
\* a payment in any other status it answers 400 and changes nothing. After the
\* confirmation of a payment of an invoice the invoice's paid_amount is the
\* sum of the amounts of its confirmed payments, and its status is 'paid' when
\* paid_amount >= total_amount, 'partially_paid' when 0 < paid_amount <
\* total_amount, and unchanged when paid_amount is 0.
C14_PaymentConfirm ==
    last.op = "PaymentViewSet.confirm" =>
        LET p == last.target
            was == PaymentStatus(last.before.payments[p])
            i == payments[p].invoice
        IN /\ was # "pending" =>
                /\ last.response = 400
                /\ PaymentBefore = last.before
           /\ was = "pending" =>
                /\ last.response = 200
                /\ PaymentStatus(payments[p]) = "confirmed"
                /\ i # 0 =>
                     LET paid == SumConfirmedAmounts(i, Payments)
                         total == invoices[i].total_amount
                     IN /\ invoices[i].paid_amount = paid
                        /\ invoices[i].status =
                             (IF paid >= total THEN "paid"
                              ELSE IF paid > 0 THEN "partially_paid"
                              ELSE last.before.invoices[i].status)

----------------------------------------------------------------------------
\* finance/models.py: FixedAsset.annual_depreciation and
\* FixedAsset.calculate_depreciation.  A date is a month counted from January
\* of the first year and a day of that month; the months have the lengths of a
\* year that is not a leap year.

MaxMonths == 14

DEPRECIATION_METHODS == {"STRAIGHT_LINE", "DECLINING_BALANCE", "UNITS_OF_PRODUCTION"}

DaysIn(month) ==
    LET m == (month % 12) + 1
    IN IF m = 2 THEN 28 ELSE IF m \in {4, 6, 9, 11} THEN 30 ELSE 31

Dates == {dt \in [month : 0..MaxMonths, day : {1, 28, 31}] : dt.day <= DaysIn(dt.month)}

DateBefore(a, b) == a.month < b.month \/ (a.month = b.month /\ a.day < b.day)

\* date + relativedelta(months=k): the day is cut to the length of the month
AddMonths(dt, k) ==
    [month |-> dt.month + k,
     day |-> IF dt.day <= DaysIn(dt.month + k) THEN dt.day ELSE DaysIn(dt.month + k)]

\* relativedelta(dt1, dt2) for dt1 > dt2: the difference of the calendar
\* months, lowered while dt2 plus that many months lies after dt1
RECURSIVE RelativeMonths(_, _, _)
RelativeMonths(dt1, dt2, months) ==
    IF DateBefore(dt1, AddMonths(dt2, months))
    THEN RelativeMonths(dt1, dt2, months - 1)
    ELSE months

relativedelta(dt1, dt2) ==
    LET months == RelativeMonths(dt1, dt2, dt1.month - dt2.month)
    IN [years |-> months \div 12, months |-> months % 12]

\* the years of the difference are left out
total_months_without_years(as_of_date, purchase_date) ==
    relativedelta(as_of_date, purchase_date).months

\* years_elapsed * 12 + months_elapsed
total_months(as_of_date, purchase_date) ==
    relativedelta(as_of_date, purchase_date).years * 12
        + relativedelta(as_of_date, purchase_date).months

\* FixedAsset.annual_depreciation
annual_depreciation(row) ==
    IF row.depreciation_method = "STRAIGHT_LINE"
    THEN (row.purchase_cost - row.salvage_value) \div row.useful_life_years
    ELSE 0

\* FixedAsset.calculate_depreciation
calculate_depreciation(row, as_of_date) ==
    IF ~DateBefore(row.purchase_date, as_of_date) THEN 0
    ELSE IF total_months(as_of_date, row.purchase_date) >= row.useful_life_years * 12
    THEN row.purchase_cost - row.salvage_value
    ELSE IF row.depreciation_method = "STRAIGHT_LINE"
    THEN (annual_depreciation(row) \div 12) * total_months(as_of_date, row.purchase_date)
    ELSE 0

\* one call of calculate_depreciation on the asset; two calls are kept, to
\* compare their results
CalculateDepreciation ==
    \E as_of_date \in Dates :
        /\ Len(depreciation_calls) < 2
        /\ depreciation_calls' = Append(depreciation_calls,
               [as_of_date |-> as_of_date,
                result |-> calculate_depreciation(asset, as_of_date)])
        /\ last' = [op |-> "FixedAsset.calculate_depreciation"]
        /\ UNCHANGED <<asset, not_asset_vars, steps>>

\* costs and salvage values whose differences divide by twelve times the
\* useful life, so that the monthly amount is exact
PurchaseDates ==
    {[month |-> 0, day |-> 31], [month |-> 1, day |-> 28], [month |-> 2, day |-> 1]}

InitAssets ==
    \E d \in PurchaseDates, cost \in {24, 48}, salvage \in {0, 48},
       life \in {0, 1, 2}, method \in DEPRECIATION_METHODS :
        /\ BaseRows(0, 0, Drafts)
        /\ IdleSales /\ IdleBooks /\ IdlePlans /\ IdleEnergy
        /\ asset = [purchase_date |-> d, purchase_cost |-> cost,
                    salvage_value |-> salvage, useful_life_years |-> life,
                    depreciation_method |-> method]
        /\ depreciation_calls = <<>>

NextAsset == CalculateDepreciation

SpecAsset == InitAssets /\ [][NextAsset]_vars

\* the whole months from one date to a later one: the largest number of
\* months that, added to the earlier date, does not pass the later one
WholeMonths(from, to) ==
    CHOOSE k \in 0..(MaxMonths + 1) :
        /\ ~DateBefore(to, AddMonths(from, k))
        /\ DateBefore(to, AddMonths(from, k + 1))

ExpectedDepreciation(row, as_of_date) ==
    LET depreciable == row.purchase_cost - row.salvage_value
    IN IF ~DateBefore(row.purchase_date, as_of_date) THEN 0
       ELSE IF WholeMonths(row.purchase_date, as_of_date) >= row.useful_life_years * 12
       THEN depreciable
       ELSE IF row.depreciation_method = "STRAIGHT_LINE"
       THEN ((depreciable \div row.useful_life_years) \div 12)
                * WholeMonths(row.purchase_date, as_of_date)
       ELSE 0

\* C15: calculate_depreciation returns 0 up to the purchase date, the whole
\* depreciable amount once the whole months elapsed reach the useful life,
\* and in between the monthly straight-line amount times the whole months
\* elapsed (0 for the other methods); for a straight-line asset whose salvage
\* value does not exceed its cost the result does not decrease with the date
\* and never exceeds purchase_cost - salvage_value.
C15_Depreciation ==
    LET calls == depreciation_calls
        depreciable == asset.purchase_cost - asset.salvage_value
    IN /\ \A i \in 1..Len(calls) :
            calls[i].result = ExpectedDepreciation(asset, calls[i].as_of_date)
       /\ (asset.depreciation_method = "STRAIGHT_LINE" /\ depreciable >= 0) =>
            /\ \A i \in 1..Len(calls) : calls[i].result <= depreciable
            /\ \A i, j \in 1..Len(calls) :
                 ~DateBefore(calls[j].as_of_date, calls[i].as_of_date)
                    => calls[i].result <= calls[j].result

\* a straight-line asset asked about in the middle of its life and again
\* after its end
C15_Witness ==
    /\ asset.depreciation_method = "STRAIGHT_LINE"
    /\ asset.useful_life_years = 1
    /\ asset.purchase_cost > asset.salvage_value
    /\ Len(depreciation_calls) = 2
    /\ 0 < depreciation_calls[1].result
    /\ depreciation_calls[1].result < depreciation_calls[2].result
    /\ depreciation_calls[2].result = asset.purchase_cost - asset.salvage_value

----------------------------------------------------------------------------
\* hr/models.py: Payroll.calculate_salary and
\* Payroll.calculate_attendance_based_salary

\* the employer's contributions are deducted as well
total_deductions_with_employer(row) ==
    row.pf_employee + row.pf_employer + row.esi_employee + row.esi_employer
        + row.professional_tax + row.income_tax + row.loan_deduction
        + row.other_deductions

gross_salary(row) ==
    row.basic_salary + row.hra + row.transport_allowance + row.medical_allowance
        + row.special_allowance + row.overtime_amount + row.bonus + row.incentive

total_deductions(row) ==
    row.pf_employee + row.esi_employee + row.professional_tax + row.income_tax
        + row.loan_deduction + row.other_deductions

\* Payroll.calculate_salary: the three totals, then self.save()
calculate_salary(row) ==
    LET gross == gross_salary(row)
        deductions == total_deductions(row)
    IN [row EXCEPT !.gross_salary = gross,
                   !.total_deductions = deductions,
                   !.net_salary = gross - deductions]

\* Payroll.calculate_attendance_based_salary: with working days, the basic
\* salary, 40% of the salary as HRA and 2000 as transport allowance, each in
\* proportion to the days present; then calculate_salary
calculate_attendance_based_salary(row) ==
    LET salary == row.employee.current_salary
        attended ==
            IF row.working_days > 0
            THEN [row EXCEPT
                    !.basic_salary = (salary \div row.working_days) * row.present_days,
                    !.hra = (((salary * 40) \div 100) * row.present_days)
                                \div row.working_days,
                    !.transport_allowance = (2000 * row.present_days)
                                                \div row.working_days]
            ELSE row
    IN calculate_salary(attended)

PayrollStep(name) ==
    /\ steps < MaxSteps
    /\ steps' = steps + 1
    /\ last' = [op |-> name, before |-> payroll]
    /\ UNCHANGED not_payroll_vars

Payroll_calculate_salary ==
    /\ PayrollStep("Payroll.calculate_salary")
    /\ payroll' = calculate_salary(payroll)

Payroll_calculate_attendance_based_salary ==
    /\ PayrollStep("Payroll.calculate_attendance_based_salary")
    /\ payroll' = calculate_attendance_based_salary(payroll)

\* every amount of the row has a value of its own, so that a sum tells which
\* amounts are in it; one of them may be zero.  Salaries and days are such
\* that the proportions are exact.
PayrollAmount(field) ==
    CASE field = "basic_salary" -> 1        [] field = "hra" -> 2
      [] field = "transport_allowance" -> 4 [] field = "medical_allowance" -> 8
      [] field = "special_allowance" -> 16  [] field = "overtime_amount" -> 32
      [] field = "bonus" -> 64              [] field = "incentive" -> 128
      [] field = "pf_employee" -> 256       [] field = "pf_employer" -> 512
      [] field = "esi_employee" -> 1024     [] field = "esi_employer" -> 2048
      [] field = "professional_tax" -> 4096 [] field = "income_tax" -> 8192
      [] field = "loan_deduction" -> 16384  [] field = "other_deductions" -> 32768
      [] OTHER -> 0

InitPayroll ==
    \E zero \in PayrollEarnings \cup PayrollDeductions \cup {"none"},
       working_days \in 0..MaxQty, present_days \in 0..MaxQty,
       current_salary \in {0, 600} :
        /\ BaseRows(0, 0, Drafts)
        /\ IdleSales /\ IdleAsset /\ IdleAccounts /\ IdlePlans /\ IdleEnergy
        /\ payroll =
             [f \in PayrollEarnings \cup PayrollDeductions \cup PayrollTotals |->
                 IF f = zero THEN 0 ELSE PayrollAmount(f)]
             @@ [working_days |-> working_days, present_days |-> present_days,
                 employee |-> [current_salary |-> current_salary]]

NextPayroll == Payroll_calculate_salary \/ Payroll_calculate_attendance_based_salary

SpecPayroll == InitPayroll /\ [][NextPayroll]_vars

\* the fields of the row other than those in changed are as they were
PayrollKept(changed) ==
    \A f \in DOMAIN payroll : f \notin changed => payroll[f] = last.before[f]

\* C16: after calculate_salary the gross salary is the sum of the eight
\* earnings, the total deductions the sum of the six employee deductions
\* (without pf_employer and esi_employer) and the net salary their difference;
\* calculate_attendance_based_salary first sets basic_salary to current_salary
\* x present_days / working_days when working_days > 0, leaves basic_salary,
\* hra and transport_allowance alone when working_days is 0, and then applies
\* the same three formulas.
C16_PayrollTotals ==
    /\ last.op \in {"Payroll.calculate_salary", "Payroll.calculate_attendance_based_salary"} =>
         /\ payroll.gross_salary =
                payroll.basic_salary + payroll.hra + payroll.transport_allowance
                + payroll.medical_allowance + payroll.special_allowance
                + payroll.overtime_amount + payroll.bonus + payroll.incentive
         /\ payroll.total_deductions =
                payroll.pf_employee + payroll.esi_employee + payroll.professional_tax
                + payroll.income_tax + payroll.loan_deduction + payroll.other_deductions
         /\ payroll.net_salary = payroll.gross_salary - payroll.total_deductions
    /\ last.op = "Payroll.calculate_salary" => PayrollKept(PayrollTotals)
    /\ last.op = "Payroll.calculate_attendance_based_salary" =>
         /\ last.before.working_days > 0 =>
              /\ payroll.basic_salary * last.before.working_days =
                     last.before.employee.current_salary * last.before.present_days
              /\ PayrollKept(PayrollTotals
                             \cup {"basic_salary", "hra", "transport_allowance"})
         /\ last.before.working_days = 0 => PayrollKept(PayrollTotals)

\* the attendance-based calculation ran for an employee who was present on
\* one of two working days, with employer contributions on the row
C16_Witness ==
    /\ last.op = "Payroll.calculate_attendance_based_salary"
    /\ last.before.working_days = 2
    /\ last.before.present_days = 1
    /\ payroll.basic_salary = 300
    /\ payroll.pf_employer > 0
    /\ payroll.esi_employer > 0
    /\ payroll.net_salary # last.before.net_salary

\* the attendance-based calculation ran without working days
C16_WitnessNoWorkingDays ==
    /\ last.op = "Payroll.calculate_attendance_based_salary"
    /\ last.before.working_days = 0
    /\ payroll.basic_salary = 1

----------------------------------------------------------------------------
\* finance/models.py: Account.update_balance and Transaction.post_transaction

ACCOUNT_CATEGORIES == {"ASSET", "LIABILITY", "EQUITY", "REVENUE", "EXPENSE"}

\* the names finance/models.py binds at module level: its imports and its
\* classes.  post_transaction reads the name timezone, which only three other
\* methods import, each for itself
FinanceModuleNames ==
    {"models", "User", "MinValueValidator", "MaxValueValidator", "Decimal", "BaseModel",
     "AccountType", "Account", "Transaction", "JournalEntry", "Budget",
     "BudgetLineItem", "CostCenter", "FinancialReport", "TaxConfiguration",
     "BankReconciliation", "FixedAsset"}

\* JournalEntry.objects.filter(account=self, entry_type=...)
\*     .aggregate(total=Sum('amount'))['total'] or 0
RECURSIVE SumEntries(_, _, _)
SumEntries(entries, account, entry_type) ==
    IF entries = <<>> THEN 0
    ELSE (IF Head(entries).account = account /\ Head(entries).entry_type = entry_type
          THEN Head(entries).amount ELSE 0)
         + SumEntries(Tail(entries), account, entry_type)

\* Account.update_balance
update_balance(row, entries, account) ==
    LET debits == SumEntries(entries, account, "DEBIT")
        credits == SumEntries(entries, account, "CREDIT")
    IN [row EXCEPT !.current_balance =
            IF row.category \in {"ASSET", "EXPENSE"}
            THEN row.opening_balance + debits - credits
            ELSE row.opening_balance + credits - debits]

\* the accounts after update_balance ran for each entry of a transaction
RECURSIVE update_balances(_, _, _)
update_balances(rows, entries, todo) ==
    IF todo = <<>> THEN rows
    ELSE LET account == Head(todo).account
         IN update_balances(
                [rows EXCEPT ![account] = update_balance(rows[account], entries, account)],
                entries, Tail(todo))

\* self.journal_entries.all()
EntriesOf(entries, t) == SelectSeq(entries, LAMBDA e : e.transaction = t)

AccountStep(name, target, raised) ==
    /\ steps < MaxSteps
    /\ steps' = steps + 1
    /\ last' = [op |-> name, target |-> target, raised |-> raised,
                before |-> [accounts |-> accounts, transactions |-> transactions]]
    /\ UNCHANGED <<not_account_vars, journal_entries>>

Account_update_balance(account) ==
    /\ AccountStep("Account.update_balance", account, "")
    /\ accounts' = [accounts EXCEPT ![account] =
                        update_balance(accounts[account], journal_entries, account)]
    /\ UNCHANGED transactions

\* Transaction.post_transaction on a freshly loaded transaction: is_posted is
\* set on the object, then timezone.now() raises NameError before self.save()
Transaction_post_transaction(t) ==
    IF transactions[t].is_posted
    THEN /\ AccountStep("Transaction.post_transaction", t, "")
         /\ UNCHANGED <<accounts, transactions>>
    ELSE IF "timezone" \notin FinanceModuleNames
    THEN /\ AccountStep("Transaction.post_transaction", t, "NameError")
         /\ UNCHANGED <<accounts, transactions>>
    ELSE /\ AccountStep("Transaction.post_transaction", t, "")
         /\ transactions' = [transactions EXCEPT ![t].is_posted = TRUE]
         /\ accounts' = update_balances(accounts, journal_entries,
                                        EntriesOf(journal_entries, t))

\* two transactions between the two accounts, each posted or not; the
\* balances are those of the opening
InitAccounts ==
    \E category \in ACCOUNT_CATEGORIES, a1 \in Quantities, a2 \in Quantities,
       posted \in [Transactions -> BOOLEAN] :
        /\ BaseRows(0, 0, Drafts)
        /\ IdleSales /\ IdleAsset /\ IdlePayroll /\ IdlePlans /\ IdleEnergy
        /\ accounts = [a \in Accounts |->
                          [category |-> IF a = "A1" THEN category ELSE "REVENUE",
                           opening_balance |-> 10, current_balance |-> 10]]
        /\ transactions = [t \in Transactions |-> [is_posted |-> posted[t]]]
        /\ journal_entries =
             <<[transaction |-> "T1", account |-> "A1", entry_type |-> "DEBIT", amount |-> a1],
               [transaction |-> "T1", account |-> "A2", entry_type |-> "CREDIT", amount |-> a1],
               [transaction |-> "T2", account |-> "A1", entry_type |-> "CREDIT", amount |-> a2],
               [transaction |-> "T2", account |-> "A2", entry_type |-> "DEBIT", amount |-> a2 + 1]>>

UpdateBalance == \E a \in Accounts : Account_update_balance(a)

PostTransaction == \E t \in Transactions : Transaction_post_transaction(t)

NextAccounts == UpdateBalance \/ PostTransaction

SpecAccounts == InitAccounts /\ [][NextAccounts]_vars

\* C17: after post_transaction on a transaction that was not posted, every
\* account with a journal entry in it has current_balance = opening_balance +
\* debits - credits for the categories ASSET and EXPENSE and opening_balance
\* + credits - debits otherwise, over all journal entries of the account,
\* those of transactions not yet posted included; post_transaction on a
\* posted transaction changes nothing.
C17_PostTransaction ==
    last.op = "Transaction.post_transaction" =>
        LET t == last.target
        IN /\ last.before.transactions[t].is_posted =>
                /\ accounts = last.before.accounts
                /\ transactions = last.before.transactions
           /\ ~last.before.transactions[t].is_posted =>
                \A a \in Accounts :
                    (\E i \in 1..Len(journal_entries) :
                        /\ journal_entries[i].transaction = t
                        /\ journal_entries[i].account = a) =>
                    LET debits == SumEntries(journal_entries, a, "DEBIT")
                        credits == SumEntries(journal_entries, a, "CREDIT")
                    IN accounts[a].current_balance =
                         (IF accounts[a].category \in {"ASSET", "EXPENSE"}
                          THEN accounts[a].opening_balance + debits - credits
                          ELSE accounts[a].opening_balance + credits - debits)

----------------------------------------------------------------------------
\* production/views.py: ProductionPlanViewSet.approve and reject, and the
\* view actions of the other apps that write a status, one request at a time.

PLAN_STATUS_CHOICES == {"draft", "approved", "in_progress", "completed", "cancelled"}

\* plan.status = new_status; plan.save(); 200: neither view looks at the
\* status the plan has
ProductionPlan_action(name, plan, new_status) ==
    /\ steps < MaxSteps
    /\ steps' = steps + 1
    /\ last' = [op |-> name, plan |-> plan, response |-> 200,
                before |-> plans[plan].status]
    /\ plans' = [plans EXCEPT ![plan].status = new_status]
    /\ UNCHANGED not_plan_vars

ProductionPlanViewSet_approve(plan) ==
    ProductionPlan_action("ProductionPlanViewSet.approve", plan, "approved")

ProductionPlanViewSet_reject(plan) ==
    ProductionPlan_action("ProductionPlanViewSet.reject", plan, "rejected")

ApprovePlan == \E pl \in Plans : ProductionPlanViewSet_approve(pl)

RejectPlan == \E pl \in Plans : ProductionPlanViewSet_reject(pl)

\* draft purchase orders and a draft plan, a sent and an accepted quotation,
\* a sent invoice with two payments
InitStatuses ==
    /\ BaseRows(0, 0, Drafts)
    /\ IdleFinance /\ IdlePlans /\ IdleEnergy
    /\ quotations = [q \in Quotations |->
                        InitQuotation(q, IF q = "Q1" THEN "sent" ELSE "accepted")]
    /\ quotation_orders = <<>>
    /\ quotation_order_lines = <<>>
    /\ invoices = <<PaymentInvoice("sent")>>
    /\ payments = [p \in Payments |-> [invoice |-> 1, amount |-> 1]]
    /\ sales_requests = [r \in Requests |-> IdleSalesRequest]
    /\ requests_started = 0

NextStatuses ==
    \/ ApprovePurchaseOrder \/ SendPurchaseOrder \/ CancelPurchaseOrder
    \/ ConfirmReceipt
    \/ AcceptQuotation \/ RejectQuotation \/ ConvertQuotationView
    \/ MarkInvoicePaid \/ ConfirmPayment
    \/ ApprovePlan \/ RejectPlan

SpecStatuses == InitStatuses /\ [][NextStatuses]_vars

\* C18: the status of every purchase order, quotation, invoice and production
\* plan is one of the values of the model's STATUS_CHOICES, after any
\* sequence of the view actions that write a status.
C18_DeclaredStatuses ==
    /\ \A o \in PurchaseOrders : purchase_orders[o].status \in PO_STATUS_CHOICES
    /\ \A q \in Quotations : quotations[q].status \in QUOTATION_STATUS_CHOICES
    /\ \A i \in 1..Len(invoices) : invoices[i].status \in INVOICE_STATUS_CHOICES
    /\ \A pl \in Plans : plans[pl].status \in PLAN_STATUS_CHOICES

----------------------------------------------------------------------------
\* energy_dashboard/management/commands/import_energy_data.py: Command.handle,
\* one row of the file at a time.

MaxRows == 3

\* the timestamps a row of the file may carry; 0 is a date that strptime
\* refuses
Timestamps == {1, 2}

FileRows == Timestamps \cup {0}

Files == UNION {[1..n -> FileRows] : n \in 0..MaxRows}

BatchSizes == {1, 2}

\* the readings the table holds before the command runs
StoredReadings == {<<>>, <<1>>, <<2>>, <<1, 2>>}

EnergyReadingFields ==
    BaseModelFields \cup
    {"timestamp", "usage_kwh", "lagging_current_reactive_power_kvarh",
     "leading_current_reactive_power_kvarh", "co2_emissions_tco2",
     "lagging_current_power_factor", "leading_current_power_factor", "nsm",
     "day_of_week", "load_type"}

\* the keyword arguments the command gives to EnergyReading(...)
ImportReadingKwargs ==
    {"timestamp", "energy_consumption", "power_factor", "reactive_power",
     "co2_emissions", "load_type", "week_status", "day_of_week", "nsm",
     "lagging_reactive_power", "leading_reactive_power", "lagging_power_factor",
     "leading_power_factor"}

EnergyReading_init_allowed_any_kwargs(kwargs) == TRUE

\* Model.__init__ raises TypeError for a keyword that is not a field
EnergyReading_init_allowed(kwargs) == kwargs \subseteq EnergyReadingFields

\* EnergyReading.objects.filter(timestamp=timestamp).exists()
EnergyReading_exists(rows, timestamp) ==
    \E i \in 1..Len(rows) : rows[i] = timestamp

\* EnergyReading.objects.bulk_create(readings_to_create)
bulk_create(rows, readings_to_create) == rows \o readings_to_create

ImportFrame == UNCHANGED not_energy_vars

\* options and --clear
ImportStart ==
    /\ import_cmd.state = "idle"
    /\ energy_readings' = IF import_cmd.clear THEN <<>> ELSE energy_readings
    /\ import_cmd' = [import_cmd EXCEPT !.state = "running",
                                        !.before = energy_readings']
    /\ ImportFrame

\* one pass of the loop over the rows of the file
ImportRow ==
    /\ import_cmd.state = "running"
    /\ import_cmd.row <= Len(import_cmd.file)
    /\ LET timestamp == import_cmd.file[import_cmd.row]
           next_row == [import_cmd EXCEPT !.row = @ + 1]
           skipped == [next_row EXCEPT !.total_skipped = @ + 1]
           appended == Append(import_cmd.readings_to_create, timestamp)
       IN  IF timestamp = 0
           THEN \* ValueError of strptime: the row is skipped
                /\ import_cmd' = skipped
                /\ UNCHANGED energy_readings
           ELSE IF EnergyReading_exists(energy_readings, timestamp)
           THEN /\ import_cmd' = skipped
                /\ UNCHANGED energy_readings
           ELSE IF ~EnergyReading_init_allowed(ImportReadingKwargs)
           THEN \* TypeError, which only the outer handler catches: CommandError
                /\ import_cmd' = [import_cmd EXCEPT !.state = "error"]
                /\ UNCHANGED energy_readings
           ELSE IF Len(appended) >= import_cmd.batch_size
           THEN /\ energy_readings' = bulk_create(energy_readings, appended)
                /\ import_cmd' = [next_row EXCEPT
                                    !.total_processed = @ + 1,
                                    !.total_created = @ + Len(appended),
                                    !.readings_to_create = <<>>]
           ELSE /\ import_cmd' = [next_row EXCEPT
                                    !.total_processed = @ + 1,
                                    !.readings_to_create = appended]
                /\ UNCHANGED energy_readings
    /\ ImportFrame

\* after the loop: the remaining readings are created
ImportFinish ==
    /\ import_cmd.state = "running"
    /\ import_cmd.row > Len(import_cmd.file)
    /\ IF import_cmd.readings_to_create # <<>>
       THEN /\ energy_readings' =
                    bulk_create(energy_readings, import_cmd.readings_to_create)
            /\ import_cmd' = [import_cmd EXCEPT
                                !.state = "done",
                                !.total_created = @ + Len(import_cmd.readings_to_create)]
       ELSE /\ import_cmd' = [import_cmd EXCEPT !.state = "done"]
            /\ UNCHANGED energy_readings
    /\ ImportFrame

InitImport ==
    \E file \in Files, batch_size \in BatchSizes, clear \in BOOLEAN,
       stored \in StoredReadings :
        /\ BaseRows(0, 0, Drafts)
        /\ IdleSales /\ IdleFinance /\ IdlePlans
        /\ energy_readings = stored
        /\ import_cmd = [IdleImport EXCEPT !.file = file, !.batch_size = batch_size,
                                           !.clear = clear]

NextImport == ImportStart \/ ImportRow \/ ImportFinish

SpecImport == InitImport /\ [][NextImport]_vars

ImportEnded == import_cmd.state \in {"done", "error"}

SharedTimestamp(rows) ==
    \E i, j \in 1..Len(rows) : i < j /\ rows[i] = rows[j]

C20_WitnessCommandError ==
    /\ import_cmd.state = "error"
    /\ \E i, j \in 1..Len(import_cmd.file) :
          /\ i < j
          /\ import_cmd.file[i] = import_cmd.file[j]
          /\ import_cmd.file[i] # 0
          /\ ~EnergyReading_exists(import_cmd.before, import_cmd.file[i])

====
